---- MODULE Spec2Model ----
(***************************************************************************)
(* gopresence: the presence service (cache-aside reads, write-through      *)
(* writes) over the ristretto cache wrapper and the NATS KV store.         *)
(*                                                                         *)
(* Time is counted in ticks.  The bucket's MaxAge (time.Hour) is Hour      *)
(* ticks; a record's TTL is a number of ticks.                             *)
(*                                                                         *)
(* Spec: the service's operations.  StoreSpec: the kvStore's operations    *)
(* called directly, next to another client of the bucket.  ConstructSpec:  *)
(* NewKVStore and kvStore.Close.  WatchSpec: kvStore.Watch and the writes  *)
(* it is told of (WatchLive: with a fair goroutine).  CacheSpec: the       *)
(* ristretto cache wrapper called directly, with GetPresence over it.      *)
(* ApiSpec: the HTTP handlers and the middleware main wraps them in.       *)
(* NodesSpec: the service next to a second node writing the same bucket.   *)
(* PollSpec: the readiness loop of startEmbeddedServer (PollLive: with a   *)
(* fair loop).  ConcSpec: SetPresence and GetPresence of two callers, one  *)
(* store or cache access at a time.                                        *)
(***************************************************************************)
EXTENDS Integers, Sequences, FiniteSets, TLC

\* ---------------------------------------------------------------- bounds
MaxTime == 4        \* the clock runs from 1 to MaxTime
MaxIds == 2         \* longest id list given to GetMultiplePresences
MaxReady == 5       \* latest time, in polls, at which a started broker is ready
MaxUpdates == 4     \* most entries one watcher is sent
MaxAdded == 3       \* most keys admitted to the cache between two Clears
MaxElapsed == 8     \* longest time, in polls, a readiness loop is followed

\* ------------------------------------------------------- program constants
Hour == 2           \* jetstream.KeyValueConfig.TTL of the bucket (time.Hour)
CenterTimeout == 3  \* default start timeout of a center broker (30s), scaled
LeafTimeout == 1    \* default start timeout of a leaf broker (15s), scaled
ShortTimeout == 2   \* the start timeout "200ms", in polls of 100ms
ZeroTime == 0       \* the zero time.Time

Users == {"u1", "u2"}
nodeID == "node1"   \* PresenceService.nodeID

StatusOnline == "online"
StatusAway == "away"
StatusBusy == "busy"
StatusOffline == "offline"

VARIABLES
    now,      \* the wall clock (time.Now)
    store,    \* the bucket: durable key -> entry
    cache,    \* the ristretto cache: user id -> item
    ret,      \* what the last service call was given, did and returned
    written,  \* history: per user, the record of the last successful write
    brokers,  \* the embedded brokers running and the buckets that exist
    built,    \* the kvStore objects NewKVStore has made, by handle
    watch,    \* the subscription kvStore.Watch made, its goroutine and callbacks
    metrics,  \* the ristretto cache's configuration and key counters
    http,     \* the HTTP request the server last handled and its response
    calls,    \* the service calls in progress, by caller, when callers overlap
    boot      \* the embedded broker being started and its readiness loop

vars ==
    <<now, store, cache, ret, written, brokers, built, watch, metrics, http,
      calls, boot>>

\* ------------------------------------------------------------ record model
Presence(uid, st, msg, ls, ua, nid, ttl) ==
    [UserID |-> uid, Status |-> st, Message |-> msg, LastSeen |-> ls,
     UpdatedAt |-> ua, NodeID |-> nid, TTL |-> ttl]

ZeroPresence == Presence("", "", "", ZeroTime, ZeroTime, "", 0)

IsValid(ps) == ps \in {StatusOnline, StatusAway, StatusBusy, StatusOffline}

ValidateNoStatus(p) ==
    IF p.UserID = "" THEN "user_id is required"
    ELSE IF p.NodeID = "" THEN "node_id is required"
    ELSE "nil"

Validate(p) ==
    IF p.UserID = "" THEN "user_id is required"
    ELSE IF ~IsValid(p.Status) THEN "invalid status"
    ELSE IF p.NodeID = "" THEN "node_id is required"
    ELSE "nil"

\* time.Since(p.UpdatedAt) > p.TTL, read at clock value t
IsExpired(p, t) ==
    IF p.TTL = 0 THEN FALSE ELSE (t - p.UpdatedAt) > p.TTL

\* ------------------------------------------------------- JSON (encoding/json)
Field(obj, k, zero) == IF k \in DOMAIN obj THEN obj[k] ELSE zero

MarshalDropsMessage(p) ==
    LET base == [user_id |-> p.UserID, status |-> p.Status,
                 last_seen |-> p.LastSeen, updated_at |-> p.UpdatedAt,
                 node_id |-> p.NodeID]
        ttl == IF p.TTL # 0 THEN ("ttl" :> p.TTL) ELSE <<>>
    IN [kind |-> "json", obj |-> base @@ ttl]

\* json.Marshal(presence): message and ttl are omitempty
Marshal(p) ==
    LET base == [user_id |-> p.UserID, status |-> p.Status,
                 last_seen |-> p.LastSeen, updated_at |-> p.UpdatedAt,
                 node_id |-> p.NodeID]
        msg == IF p.Message # "" THEN ("message" :> p.Message) ELSE <<>>
        ttl == IF p.TTL # 0 THEN ("ttl" :> p.TTL) ELSE <<>>
    IN [kind |-> "json", obj |-> (base @@ msg) @@ ttl]

\* json.Unmarshal(data, &presence): absent members keep the zero value
Unmarshal(data) ==
    IF data.kind # "json" THEN [err |-> "unmarshal", presence |-> ZeroPresence]
    ELSE [err |-> "nil",
          presence |-> Presence(Field(data.obj, "user_id", ""),
                                Field(data.obj, "status", ""),
                                Field(data.obj, "message", ""),
                                Field(data.obj, "last_seen", ZeroTime),
                                Field(data.obj, "updated_at", ZeroTime),
                                Field(data.obj, "node_id", ""),
                                Field(data.obj, "ttl", 0))]

EmptyData == [kind |-> "empty", obj |-> <<>>]
GarbageData == [kind |-> "garbage", obj |-> <<>>]

\* ------------------------------------------------------------- cache layer
NoItem == [kind |-> "none", p |-> ZeroPresence]
Item(p) == [kind |-> "presence", p |-> p]
CorruptItem == [kind |-> "corrupt", p |-> ZeroPresence]

\* ristrettoCache.Delete
CacheDelete(c, userID) == [c EXCEPT ![userID] = NoItem]

CacheGetStrictExpiry(c, userID, t) ==
    LET it == c[userID] IN
    IF it.kind = "none"
    THEN [presence |-> ZeroPresence, found |-> FALSE, cache |-> c]
    ELSE IF it.kind = "corrupt"
    THEN [presence |-> ZeroPresence, found |-> FALSE, cache |-> CacheDelete(c, userID)]
    ELSE IF it.p.TTL > 0 /\ (t - it.p.UpdatedAt) >= it.p.TTL
    THEN [presence |-> ZeroPresence, found |-> FALSE, cache |-> CacheDelete(c, userID)]
    ELSE [presence |-> it.p, found |-> TRUE, cache |-> c]

CacheGetKeepsExpired(c, userID, t) ==
    LET it == c[userID] IN
    IF it.kind = "none"
    THEN [presence |-> ZeroPresence, found |-> FALSE, cache |-> c]
    ELSE IF it.kind = "corrupt"
    THEN [presence |-> ZeroPresence, found |-> FALSE, cache |-> CacheDelete(c, userID)]
    ELSE IF it.p.TTL > 0 /\ (t - it.p.UpdatedAt) > it.p.TTL
    THEN [presence |-> ZeroPresence, found |-> FALSE, cache |-> c]
    ELSE [presence |-> it.p, found |-> TRUE, cache |-> c]

CacheGetKeepsCorrupt(c, userID, t) ==
    LET it == c[userID] IN
    IF it.kind = "none"
    THEN [presence |-> ZeroPresence, found |-> FALSE, cache |-> c]
    ELSE IF it.kind = "corrupt"
    THEN [presence |-> ZeroPresence, found |-> FALSE, cache |-> c]
    ELSE IF it.p.TTL > 0 /\ (t - it.p.UpdatedAt) > it.p.TTL
    THEN [presence |-> ZeroPresence, found |-> FALSE, cache |-> CacheDelete(c, userID)]
    ELSE [presence |-> it.p, found |-> TRUE, cache |-> c]

\* ristrettoCache.Get: a corrupted or expired item is removed and reported
\* as a miss
CacheGet(c, userID, t) ==
    LET it == c[userID] IN
    IF it.kind = "none"
    THEN [presence |-> ZeroPresence, found |-> FALSE, cache |-> c]
    ELSE IF it.kind = "corrupt"
    THEN [presence |-> ZeroPresence, found |-> FALSE, cache |-> CacheDelete(c, userID)]
    ELSE IF it.p.TTL > 0 /\ (t - it.p.UpdatedAt) > it.p.TTL
    THEN [presence |-> ZeroPresence, found |-> FALSE, cache |-> CacheDelete(c, userID)]
    ELSE [presence |-> it.p, found |-> TRUE, cache |-> c]

\* ristrettoCache.Clear
CacheClear(c) == [u \in Users |-> NoItem]

CacheSetKeepsTTL(c, userID, presence, ttl) ==
    LET admitted == {[k \in Users |->
                         IF k = userID THEN Item(presence)
                         ELSE IF k \in victims THEN NoItem ELSE c[k]] :
                     victims \in SUBSET (Users \ {userID})}
        rejected == IF c[userID].kind = "none" THEN {c} ELSE {}
    IN admitted \cup rejected

\* ristrettoCache.Set: the set of caches the call can leave.  An item already
\* stored under the key is replaced at once; a new key goes through the
\* admission policy, which may reject it or evict other keys to make room.
CacheSet(c, userID, presence, ttl) ==
    LET p == IF ttl > 0 THEN [presence EXCEPT !.TTL = ttl] ELSE presence
        admitted == {[k \in Users |->
                         IF k = userID THEN Item(p)
                         ELSE IF k \in victims THEN NoItem ELSE c[k]] :
                     victims \in SUBSET (Users \ {userID})}
        rejected == IF c[userID].kind = "none" THEN {c} ELSE {}
    IN admitted \cup rejected

\* A value that is not a models.Presence is set in the underlying cache (as
\* TestCache_CorruptedEntryAndSizeNoMetrics does), through the same admission
CorruptSet(c, key) ==
    LET admitted == {[k \in Users |->
                         IF k = key THEN CorruptItem
                         ELSE IF k \in victims THEN NoItem ELSE c[k]] :
                     victims \in SUBSET (Users \ {key})}
        rejected == IF c[key].kind = "none" THEN {c} ELSE {}
    IN admitted \cup rejected

\* RistrettoConfig.Metrics and ristretto's counters KeysAdded and KeysEvicted,
\* which count a key when the policy admits it and when the policy drops it
\* (evicted or deleted).  pending: the deletions sent by Get, which does not
\* wait, that the policy has not processed yet.  clean: no Set has been
\* rejected and no key evicted or removed by Get since the cache was new or
\* cleared
NoMetrics ==
    [Metrics |-> FALSE, KeysAdded |-> 0, KeysEvicted |-> 0, pending |-> 0,
     clean |-> TRUE]

SizeOfAdded(m) == IF m.Metrics THEN m.KeysAdded ELSE 0

\* ristrettoCache.Size
Size(m) == IF m.Metrics THEN m.KeysAdded - m.KeysEvicted ELSE 0

\* c.cache.Wait(): the policy has processed all that was sent to it
Waited(m) == [m EXCEPT !.KeysEvicted = @ + m.pending, !.pending = 0]

\* The counters after Get's c.cache.Del(userID) of an item it found
MetricsDel(m) ==
    IF m.Metrics THEN [m EXCEPT !.pending = @ + 1, !.clean = FALSE] ELSE m

\* The counters after c.cache.Set and c.cache.Wait() took cache c to c2
MetricsSet(m, c, c2, key) ==
    LET added == IF c[key].kind = "none" /\ c2[key].kind # "none" THEN 1 ELSE 0
        victims == Cardinality({u \in Users \ {key} :
                                   c[u].kind # "none" /\ c2[u].kind = "none"})
    IN IF m.Metrics
       THEN [Waited(m) EXCEPT !.KeysAdded = @ + added,
                              !.KeysEvicted = @ + victims,
                              !.clean = @ /\ c2[key].kind # "none" /\ victims = 0]
       ELSE m

MetricsDeleteUncounted(m, c, key) == IF m.Metrics THEN Waited(m) ELSE m

\* The counters after ristrettoCache.Delete (Del and Wait) on cache c
MetricsDelete(m, c, key) ==
    IF m.Metrics
    THEN [Waited(m) EXCEPT !.KeysEvicted = @ + IF c[key].kind # "none" THEN 1 ELSE 0]
    ELSE m

\* The counters after ristrettoCache.Clear
MetricsClear(m) ==
    [m EXCEPT !.KeysAdded = 0, !.KeysEvicted = 0, !.pending = 0, !.clean = TRUE]

\* ----------------------------------------------------------- durable store
presenceKey(userID) == "user." \o userID

Keys == {presenceKey(u) : u \in Users}

NoEntry == [present |-> FALSE, data |-> EmptyData, created |-> ZeroTime]

\* What kv.Delete leaves under a key: a delete marker, which Get reports as
\* ErrKeyNotFound and a watcher as an entry of operation KeyValueDelete
DeleteMarker ==
    [present |-> FALSE, data |-> [kind |-> "deleted", obj |-> <<>>],
     created |-> ZeroTime]

\* jetstream KeyValue.Get on the bucket
BucketGet(st, key, up) ==
    IF ~up THEN [err |-> "unavailable", value |-> EmptyData]
    ELSE IF ~st[key].present THEN [err |-> "ErrKeyNotFound", value |-> EmptyData]
    ELSE [err |-> "nil", value |-> st[key].data]

KVGetSkipsValidate(st, userID, up) ==
    LET key == presenceKey(userID)
        entry == BucketGet(st, key, up)
        dec == Unmarshal(entry.value)
    IN IF entry.err = "ErrKeyNotFound"
       THEN [err |-> "notfound", presence |-> ZeroPresence]
       ELSE IF entry.err # "nil"
       THEN [err |-> "failed", presence |-> ZeroPresence]
       ELSE IF entry.value.kind = "empty"
       THEN [err |-> "notfound", presence |-> ZeroPresence]
       ELSE IF dec.err # "nil"
       THEN [err |-> "failed", presence |-> ZeroPresence]
       ELSE [err |-> "nil", presence |-> dec.presence]

\* kvStore.Get
KVGet(st, userID, up) ==
    LET key == presenceKey(userID)
        entry == BucketGet(st, key, up)
        dec == Unmarshal(entry.value)
    IN IF entry.err = "ErrKeyNotFound"
       THEN [err |-> "notfound", presence |-> ZeroPresence]
       ELSE IF entry.err # "nil"
       THEN [err |-> "failed", presence |-> ZeroPresence]
       ELSE IF entry.value.kind = "empty"
       THEN [err |-> "notfound", presence |-> ZeroPresence]
       ELSE IF dec.err # "nil"
       THEN [err |-> "failed", presence |-> ZeroPresence]
       ELSE IF Validate(dec.presence) # "nil"
       THEN [err |-> "notfound", presence |-> ZeroPresence]
       ELSE [err |-> "nil", presence |-> dec.presence]

KVSetMerges(st, userID, presence, ttl, t, up) ==
    LET key == presenceKey(userID)
        old == IF st[key].present /\ st[key].data.kind = "json"
               THEN st[key].data.obj ELSE <<>>
    IN
    IF ~up THEN [err |-> "failed", store |-> st]
    ELSE [err |-> "nil",
          store |-> [st EXCEPT ![key] =
                        [present |-> TRUE,
                         data |-> [kind |-> "json",
                                   obj |-> Marshal(presence).obj @@ old],
                         created |-> t]]]

\* kvStore.Set: the payload is put under the key; no per-key expiry
KVSet(st, userID, presence, ttl, t, up) ==
    LET key == presenceKey(userID) IN
    IF ~up THEN [err |-> "failed", store |-> st]
    ELSE [err |-> "nil",
          store |-> [st EXCEPT ![key] = [present |-> TRUE,
                                         data |-> Marshal(presence),
                                         created |-> t]]]

\* jetstream KeyValue.Delete on the bucket.  strict: the bucket reports
\* ErrKeyNotFound for a key it does not hold
BucketDelete(st, key, up, strict) ==
    IF ~up THEN [err |-> "unavailable", store |-> st]
    ELSE IF ~st[key].present /\ strict THEN [err |-> "ErrKeyNotFound", store |-> st]
    ELSE [err |-> "nil", store |-> [st EXCEPT ![key] = DeleteMarker]]

KVDeleteStrict(st, userID, up, strict) ==
    LET d == BucketDelete(st, presenceKey(userID), up, strict)
    IN [err |-> IF d.err # "nil" THEN "failed" ELSE "nil", store |-> d.store]

\* kvStore.Delete
KVDelete(st, userID, up, strict) ==
    LET d == BucketDelete(st, presenceKey(userID), up, strict)
    IN [err |-> IF d.err # "nil" /\ d.err # "ErrKeyNotFound" THEN "failed"
                ELSE "nil",
        store |-> d.store]

KVGetMultipleKeepsFailed(st, userIDs, up) ==
    LET asked == {userIDs[i] : i \in DOMAIN userIDs}
    IN [err |-> "nil", result |-> [u \in asked |-> KVGet(st, u, up).presence]]

\* kvStore.GetMultiple: every id whose Get fails, for whatever reason, is
\* skipped; the error returned is always nil
KVGetMultiple(st, userIDs, up) ==
    LET asked == {userIDs[i] : i \in DOMAIN userIDs}
        found == {u \in asked : KVGet(st, u, up).err = "nil"}
    IN [err |-> "nil", result |-> [u \in found |-> KVGet(st, u, up).presence]]

\* -------------------------------------------------------------- the watch
\* jetstream.KeyValueEntry as Watch reads it: Key(), Operation(), Value()
KVEntry(key, op, value) == [key |-> key, op |-> op, value |-> value]

\* The nil entry a KeyWatcher sends on Updates() once it has sent the initial
\* values (at once when there are none)
NilEntry == KVEntry("", "nil", EmptyData)

\* The entry of the bucket under a key it holds
EntryOf(st, key) ==
    IF st[key].present THEN KVEntry(key, "KeyValuePut", st[key].data)
    ELSE KVEntry(key, "KeyValueDelete", EmptyData)

\* No subscription yet.  goroutine: "none", "running" or "done"; watcher:
\* "none", "active" or "stopped"; ctx: "live" or "cancelled"; Updates: the
\* watcher's channel; taken: the entries the goroutine has received from it;
\* events: the events the callback has been invoked with, in order
NoWatch ==
    [goroutine |-> "none", watcher |-> "none", ctx |-> "live",
     Updates |-> <<>>, taken |-> <<>>, events |-> <<>>]

\* The watcher made by kv.WatchAll: the last entry of every key the bucket
\* holds, in the order given, then the nil entry
WatchAll(st, order) ==
    [i \in 1 .. Len(order) |-> EntryOf(st, order[i])] \o <<NilEntry>>

\* The bucket has applied a write: an active watcher is sent its entry
Notify(w, entry) ==
    IF w.watcher = "active" THEN [w EXCEPT !.Updates = Append(@, entry)] ELSE w

WatchEventOfPutOnly(entry) ==
    IF entry.op = "KeyValuePut" /\ Unmarshal(entry.value).err = "nil"
    THEN [Key |-> entry.key, Type |-> "PUT",
          Presence |-> <<Unmarshal(entry.value).presence>>]
    ELSE [Key |-> entry.key, Type |-> "", Presence |-> <<>>]

\* Watch, lines 536-549: the event of an entry.  Presence is <<>> for nil and
\* <<p>> for a pointer to p
WatchEventOf(entry) ==
    [Key |-> entry.key,
     Type |-> IF entry.op = "KeyValuePut" THEN "PUT"
              ELSE IF entry.op = "KeyValueDelete" THEN "DELETE" ELSE "",
     Presence |-> IF entry.op = "KeyValuePut" /\ Unmarshal(entry.value).err = "nil"
                  THEN <<Unmarshal(entry.value).presence>> ELSE <<>>]

GoroutineExitLeaks(w) == [w EXCEPT !.goroutine = "done"]

\* Watch, lines 526, 532 and 554: the goroutine returns and its deferred
\* watcher.Stop() runs
GoroutineExit(w) == [w EXCEPT !.goroutine = "done", !.watcher = "stopped"]

\* ------------------------------------------------------ store construction
DefaultURL == "nats://127.0.0.1:4222"     \* nats.DefaultURL
RemoteURL == "nats://remote:4222"         \* a KVConfig.ServerURL callers set
HubURL == "nats://hub:7422"               \* a KVConfig.CenterURL callers set

Handles == {"s1", "s2"}

\* ns.ClientURL() of the embedded broker started for handle h (a random port)
ClientURL(h) == "nats://0.0.0.0:" \o h

\* KVConfig
KVConfig(serverURL, bucketName, embedded, nodeType, centerURL, startTimeout) ==
    [ServerURL |-> serverURL, BucketName |-> bucketName, Embedded |-> embedded,
     NodeType |-> nodeType, CenterURL |-> centerURL, LeafPort |-> 0,
     ClusterPort |-> 0, StartTimeout |-> startTimeout]

\* the kvStore object: config.ServerURL, server (the broker's URL, "" for
\* nil), conn ("nil", "open" or "closed"), url (what conn dialled) and kv
\* (the bucket attached to, "" for nil)
NoStore == [ServerURL |-> "", server |-> "", conn |-> "nil", url |-> "", kv |-> ""]

Err(kind) == [kind |-> kind, within |-> 0, nodeType |-> ""]
NilErr == Err("nil")

\* startEmbeddedServer and NewKVStore: an unspecified NodeType is "center"
nodeTypeOf(config) == IF config.NodeType = "" THEN "center" ELSE config.NodeType

\* time.ParseDuration of the start timeouts callers configure
ParseDuration(s) ==
    IF s = "200ms" THEN [err |-> "nil", d |-> ShortTimeout]
    ELSE IF s = "0s" THEN [err |-> "nil", d |-> 0]
    ELSE IF s = "-100ms" THEN [err |-> "nil", d |-> 0 - 1]
    ELSE [err |-> "invalid duration", d |-> 0]

\* startEmbeddedServer, lines 659-672: the configured timeout when it parses,
\* else the role's default
startTimeout(config) ==
    LET parsed == ParseDuration(config.StartTimeout)
        timeout == IF config.StartTimeout # "" /\ parsed.err = "nil"
                   THEN parsed.d ELSE 0
    IN IF timeout # 0 THEN timeout
       ELSE IF nodeTypeOf(config) = "center" THEN CenterTimeout ELSE LeafTimeout

RECURSIVE WaitReadyNoShutdown(_, _, _)
WaitReadyNoShutdown(readyAt, timeout, t) ==
    IF readyAt <= t + 1
    THEN [ready |-> TRUE, elapsed |-> t, shutdown |-> FALSE]
    ELSE IF t + 1 >= timeout
    THEN [ready |-> FALSE, elapsed |-> t + 1, shutdown |-> FALSE]
    ELSE WaitReadyNoShutdown(readyAt, timeout, t + 2)

RECURSIVE WaitReady(_, _, _)
\* startEmbeddedServer, lines 682-700: the readiness loop, entered t after
\* startTime.  ReadyForConnections waits up to one poll (100ms) for a broker
\* that is ready at readyAt; when it is not, the elapsed time is compared with
\* the timeout (the broker is shut down when it has run out) and the loop
\* sleeps for one more poll
WaitReady(readyAt, timeout, t) ==
    IF readyAt <= t + 1
    THEN [ready |-> TRUE, elapsed |-> t, shutdown |-> FALSE]
    ELSE IF t + 1 >= timeout
    THEN [ready |-> FALSE, elapsed |-> t + 1, shutdown |-> TRUE]
    ELSE WaitReady(readyAt, timeout, t + 2)

\* readyAt of a broker that never gets ready for connections
Never == 0 - 1

\* ns.ReadyForConnections(100 * time.Millisecond), called t after startTime
ReadyForConnections(readyAt, t) == readyAt # Never /\ readyAt <= t + 1

PollStepNoTimeout(b) ==
    IF ReadyForConnections(b.readyAt, b.elapsed)
    THEN [b EXCEPT !.state = "Ready", !.polls = @ + 1]
    ELSE [b EXCEPT !.elapsed = @ + 2, !.polls = @ + 1]

\* startEmbeddedServer, lines 682-700: one turn of the readiness loop, for
\* the broker being started b.  The loop is left when the broker is ready
\* (state "Ready") and when the elapsed time has reached the timeout (the
\* broker is shut down, state "Failed"); otherwise it sleeps for a poll
PollStep(b) ==
    IF ReadyForConnections(b.readyAt, b.elapsed)
    THEN [b EXCEPT !.state = "Ready", !.polls = @ + 1]
    ELSE IF b.elapsed + 1 >= b.timeout
    THEN [b EXCEPT !.state = "Failed", !.elapsed = @ + 1, !.polls = @ + 1]
    ELSE [b EXCEPT !.elapsed = @ + 2, !.polls = @ + 1]

\* server.Options, as far as the roles differ in them: JetStream, the port
\* of the listener for leaf connections and of the one for cluster peers (0:
\* no such listener) and the URLs of the remote leaf connections
NoOptions == [JetStream |-> FALSE, LeafPort |-> 0, ClusterPort |-> 0, Remotes |-> {}]

\* startEmbeddedServer, lines 579-632: the options opts it configures
opts(nodeType, config) ==
    IF nodeType = "center"
    THEN [JetStream |-> TRUE,
          LeafPort |-> IF config.LeafPort > 0 THEN config.LeafPort ELSE 0,
          ClusterPort |-> IF config.ClusterPort > 0 THEN config.ClusterPort ELSE 0,
          Remotes |-> {}]
    ELSE [JetStream |-> FALSE, LeafPort |-> 0, ClusterPort |-> 0,
          Remotes |-> IF nodeType = "leaf" /\ config.CenterURL # ""
                      THEN {config.CenterURL} ELSE {}]

\* startEmbeddedServer, lines 638-649: the options simpleOpts it passes to
\* server.NewServer; nothing of opts is copied into them
simpleOpts(nodeType, config) ==
    [JetStream |-> nodeType = "center", LeafPort |-> 0, ClusterPort |-> 0,
     Remotes |-> {}]

\* kvStore.startEmbeddedServer for the store s of handle h.  fault "server":
\* the data directory, the center URL or server.NewServer is refused.
\* running: the embedded brokers that run.  started: the broker this call
\* started, "" for none; options: the options that broker was created with
startEmbeddedServer(s, h, config, fault, readyAt, running) ==
    LET nodeType == nodeTypeOf(config)
        timeout == startTimeout(config)
        w == WaitReady(readyAt, timeout, 0)
        none == [err |-> NilErr, s |-> s, running |-> running, started |-> "",
                 options |-> NoOptions,
                 elapsed |-> 0, timeout |-> timeout]
    IN IF fault = "server"
       THEN [none EXCEPT !.err = Err("failed to create server")]
       ELSE IF ~w.ready
       THEN [none EXCEPT !.err = [kind |-> "server failed to start within",
                                  within |-> timeout, nodeType |-> nodeType],
                         !.running = IF w.shutdown THEN running \ {ClientURL(h)}
                                     ELSE running \cup {ClientURL(h)},
                         !.started = ClientURL(h),
                         !.options = simpleOpts(nodeType, config),
                         !.elapsed = w.elapsed]
       ELSE [none EXCEPT !.s = [s EXCEPT !.server = ClientURL(h),
                                         !.ServerURL = ClientURL(h)],
                         !.running = running \cup {ClientURL(h)},
                         !.started = ClientURL(h),
                         !.options = simpleOpts(nodeType, config),
                         !.elapsed = w.elapsed]

cleanupKeepsServer(s, running) ==
    [s |-> [s EXCEPT !.conn = IF s.conn = "open" THEN "closed" ELSE s.conn],
     running |-> running]

\* kvStore.cleanup: the connection is closed and the embedded broker is shut
\* down, when there is one
cleanup(s, running) ==
    [s |-> [s EXCEPT !.conn = IF s.conn = "open" THEN "closed" ELSE s.conn],
     running |-> IF s.server # "" THEN running \ {s.server} ELSE running]

\* NewKVStore, lines 366-375: the URL to dial, taken from the config the
\* caller passed (the store holds its own copy of the config, and it is to
\* that copy that startEmbeddedServer writes the broker's client URL)
serverURL(config) ==
    IF config.ServerURL # "" THEN config.ServerURL
    ELSE IF config.NodeType = "leaf" /\ config.CenterURL # "" THEN config.CenterURL
    ELSE DefaultURL

usesKVAnyRole(nodeType, config) == nodeType \in {"center", "leaf"}

\* NewKVStore, line 394: a center, or a leaf that names its center
usesKV(nodeType, config) ==
    nodeType = "center" \/ (nodeType = "leaf" /\ config.CenterURL # "")

\* NewKVStore, lines 403-406
bucketNameOf(config) ==
    IF config.BucketName = "" THEN "presence" ELSE config.BucketName

OpenBucketCreateOnly(nodeType, url, bucketName, fault, buckets) ==
    LET b == <<url, bucketName>>
        created == fault # "kv" /\ ~(b \in buckets /\ fault = "exists")
        got == fault # "kv" /\ b \in buckets
    IN IF nodeType = "center"
       THEN IF created THEN [err |-> NilErr, buckets |-> buckets \cup {b}]
            ELSE [err |-> Err("failed to create/get KV bucket"), buckets |-> buckets]
       ELSE IF got THEN [err |-> NilErr, buckets |-> buckets]
            ELSE [err |-> Err("failed to access KV bucket"), buckets |-> buckets]

OpenBucketLeafCreates(nodeType, url, bucketName, fault, buckets) ==
    LET b == <<url, bucketName>>
        created == fault # "kv" /\ ~(b \in buckets /\ fault = "exists")
    IN IF created THEN [err |-> NilErr, buckets |-> buckets \cup {b}]
       ELSE [err |-> Err("failed to create/get KV bucket"), buckets |-> buckets]

\* NewKVStore, lines 408-430: a center creates the bucket and, when that
\* fails, gets the existing one; a leaf gets the existing one.  fault "kv":
\* the broker does not answer JetStream requests; fault "exists":
\* CreateKeyValue refuses a bucket that exists
OpenBucket(nodeType, url, bucketName, fault, buckets) ==
    LET b == <<url, bucketName>>
        created == fault # "kv" /\ ~(b \in buckets /\ fault = "exists")
        got == fault # "kv" /\ b \in buckets
    IN IF nodeType = "center"
       THEN IF created THEN [err |-> NilErr, buckets |-> buckets \cup {b}]
            ELSE IF got THEN [err |-> NilErr, buckets |-> buckets]
            ELSE [err |-> Err("failed to create/get KV bucket"), buckets |-> buckets]
       ELSE IF got THEN [err |-> NilErr, buckets |-> buckets]
            ELSE [err |-> Err("failed to access KV bucket"), buckets |-> buckets]

\* NewKVStore for handle h: what it returns (err; store, whether a store is
\* returned), the kvStore object s it made, the brokers afterwards, and what
\* happened on the way (started, dialled, elapsed, timeout).  fault
\* "connect": nats.Connect fails; fault "js": jetstream.New fails
NewKVStore(config, h, fault, readyAt, br) ==
    LET s0 == [NoStore EXCEPT !.ServerURL = config.ServerURL]
        e == IF config.Embedded
             THEN startEmbeddedServer(s0, h, config, fault, readyAt, br.running)
             ELSE [err |-> NilErr, s |-> s0, running |-> br.running,
                   started |-> "", options |-> NoOptions,
                   elapsed |-> 0, timeout |-> 0]
        url == serverURL(config)
        s1 == [e.s EXCEPT !.conn = "open", !.url = url]
        nodeType == nodeTypeOf(config)
        o == OpenBucket(nodeType, url, bucketNameOf(config), fault, br.buckets)
        out == [err |-> NilErr, store |-> FALSE, s |-> e.s,
                brokers |-> [br EXCEPT !.running = e.running],
                started |-> e.started, options |-> e.options, dialled |-> "",
                elapsed |-> e.elapsed, timeout |-> e.timeout]
        Failed(err, s) ==
            [out EXCEPT !.err = err, !.s = cleanup(s, e.running).s,
                        !.brokers.running = cleanup(s, e.running).running,
                        !.dialled = url]
    IN IF e.err # NilErr
       THEN [out EXCEPT !.err = e.err]
       ELSE IF fault = "connect"
       THEN Failed(Err("failed to connect to NATS"), e.s)
       ELSE IF ~usesKV(nodeType, config)
       THEN Failed(Err("leaf nodes must specify center URL for KV operations"), s1)
       ELSE IF fault = "js"
       THEN Failed(Err("failed to create JetStream context"), s1)
       ELSE IF o.err # NilErr
       THEN Failed(o.err, s1)
       ELSE [out EXCEPT !.store = TRUE,
                        !.s = [s1 EXCEPT !.kv = bucketNameOf(config)],
                        !.brokers.buckets = o.buckets,
                        !.dialled = url]

\* -------------------------------------------------------- presence service
Call(op, userIDs, err) == [op |-> op, userIDs |-> userIDs, err |-> err]

\* ret: op, the arguments (userID, userIDs, presence), up (whether the broker
\* answers during the call), the returned error and value(s), found (what
\* each cache lookup gave), calls (the store calls made), sets (the
\* cache.Set calls made) and had (the kind of item GetPresence's key had in
\* the cache when it was called)
Idle ==
    [op |-> "none", userID |-> "", userIDs |-> <<>>, presence |-> ZeroPresence,
     up |-> TRUE, err |-> "nil", val |-> ZeroPresence, vals |-> <<>>,
     found |-> <<>>, calls |-> <<>>, sets |-> {}, had |-> "none"]

StampKeepsClientNodeID(presence, t) ==
    [presence EXCEPT !.NodeID = IF presence.NodeID = "" THEN nodeID
                                ELSE presence.NodeID,
                     !.UpdatedAt = t, !.LastSeen = t]

\* SetPresence, lines 69-71: node id and timestamps are the server's
Stamp(presence, t) ==
    [presence EXCEPT !.NodeID = nodeID, !.UpdatedAt = t, !.LastSeen = t]

ServiceCacheSetSkipped(c, userID, presence) ==
    [caches |-> {c}, sets |-> {}]

\* s.cache.Set(userID, presence, presence.TTL): the caches it can leave and
\* the call as logged in ret.sets
ServiceCacheSet(c, userID, presence) ==
    [caches |-> CacheSet(c, userID, presence, presence.TTL),
     sets |-> {[userID |-> userID, presence |-> presence]}]

LookupTrustsCache(c, userID, t) ==
    LET it == c[userID]
        hit == it.kind = "presence"
    IN [hit |-> hit,
        presence |-> it.p,
        found |-> IF hit THEN "hit" ELSE "miss",
        cache |-> IF hit THEN c ELSE CacheDelete(c, userID)]

\* The service's cache lookup (GetPresence lines 45-52, GetMultiplePresences
\* lines 96-101): cache.Get, then IsExpired; an item found expired is deleted
Lookup(c, userID, t) ==
    LET g == CacheGet(c, userID, t)
        hit == g.found /\ ~IsExpired(g.presence, t)
    IN [hit |-> hit,
        presence |-> g.presence,
        found |-> IF hit THEN "hit" ELSE IF g.found THEN "expired" ELSE "miss",
        cache |-> IF g.found /\ ~hit THEN CacheDelete(g.cache, userID)
                  ELSE g.cache]

\* PresenceService.GetPresence
GetPresence(userID, up) ==
    LET l == Lookup(cache, userID, now)
        s == KVGet(store, userID, up)
        put == ServiceCacheSet(l.cache, userID, s.presence)
        r == [Idle EXCEPT !.op = "GetPresence", !.userID = userID, !.up = up,
                          !.found = <<l.found>>, !.had = cache[userID].kind]
        g == CacheGet(cache, userID, now)
        m1 == IF cache[userID].kind # "none" /\ g.cache[userID].kind = "none"
              THEN MetricsDel(metrics) ELSE metrics
        m == IF l.found = "expired" THEN MetricsDelete(m1, g.cache, userID) ELSE m1
    IN /\ ret.op = "none"
       /\ UNCHANGED <<now, store, written, brokers, built, watch, calls, boot>>
       /\ IF l.hit
          THEN /\ cache' = l.cache
               /\ metrics' = m
               /\ ret' = [r EXCEPT !.val = l.presence]
          ELSE IF s.err # "nil"
          THEN /\ cache' = l.cache
               /\ metrics' = m
               /\ ret' = [r EXCEPT !.err = "PresenceNotFoundError",
                                   !.calls = <<Call("Get", <<userID>>, s.err)>>]
          ELSE /\ cache' \in put.caches
               /\ metrics' = MetricsSet(m, l.cache, cache', userID)
               /\ ret' = [r EXCEPT !.val = s.presence,
                                   !.calls = <<Call("Get", <<userID>>, "nil")>>,
                                   !.sets = put.sets]

SetPresenceCacheFirst(userID, presence, up) ==
    LET p == Stamp(presence, now)
        w == KVSet(store, userID, p, p.TTL, now, up)
        put == ServiceCacheSet(cache, userID, p)
        r == [Idle EXCEPT !.op = "SetPresence", !.userID = userID,
                          !.presence = presence, !.up = up]
    IN /\ ret.op = "none"
       /\ UNCHANGED <<now, brokers, built, watch, metrics, calls, boot>>
       /\ IF Validate(p) # "nil"
          THEN /\ UNCHANGED <<store, cache, written>>
               /\ ret' = [r EXCEPT !.err = "invalid presence"]
          ELSE /\ cache' \in put.caches
               /\ store' = w.store
               /\ IF w.err # "nil"
                  THEN /\ UNCHANGED written
                       /\ ret' = [r EXCEPT !.err = "failed to store presence",
                                           !.calls = <<Call("Set", <<userID>>, w.err)>>,
                                           !.sets = put.sets]
                  ELSE /\ written' = [written EXCEPT ![userID] = Item(p)]
                       /\ ret' = [r EXCEPT !.calls = <<Call("Set", <<userID>>, "nil")>>,
                                           !.sets = put.sets]

\* PresenceService.SetPresence
SetPresence(userID, presence, up) ==
    LET p == Stamp(presence, now)
        w == KVSet(store, userID, p, p.TTL, now, up)
        put == ServiceCacheSet(cache, userID, p)
        r == [Idle EXCEPT !.op = "SetPresence", !.userID = userID,
                          !.presence = presence, !.up = up]
    IN /\ ret.op = "none"
       /\ UNCHANGED <<now, brokers, built, watch, metrics, calls, boot>>
       /\ IF Validate(p) # "nil"
          THEN /\ UNCHANGED <<store, cache, written>>
               /\ ret' = [r EXCEPT !.err = "invalid presence"]
          ELSE IF w.err # "nil"
          THEN /\ store' = w.store
               /\ UNCHANGED <<cache, written>>
               /\ ret' = [r EXCEPT !.err = "failed to store presence",
                                   !.calls = <<Call("Set", <<userID>>, w.err)>>]
          ELSE /\ store' = w.store
               /\ cache' \in put.caches
               /\ written' = [written EXCEPT ![userID] = Item(p)]
               /\ ret' = [r EXCEPT !.calls = <<Call("Set", <<userID>>, "nil")>>,
                                   !.sets = put.sets]

RECURSIVE CacheScanAllMissing(_, _, _)
CacheScanAllMissing(c, userIDs, t) ==
    IF userIDs = <<>>
    THEN [result |-> <<>>, missingUsers |-> <<>>, found |-> <<>>, cache |-> c]
    ELSE LET userID == Head(userIDs)
             l == Lookup(c, userID, t)
             rest == CacheScanAllMissing(l.cache, Tail(userIDs), t)
         IN IF l.hit
            THEN [rest EXCEPT !.result = rest.result @@ (userID :> l.presence),
                              !.missingUsers = <<userID>> \o rest.missingUsers,
                              !.found = <<l.found>> \o rest.found]
            ELSE [rest EXCEPT !.missingUsers = <<userID>> \o rest.missingUsers,
                              !.found = <<l.found>> \o rest.found]

RECURSIVE CacheScan(_, _, _)
\* GetMultiplePresences, lines 95-104: the ids are looked up in the cache in
\* order; a hit goes to the result, any other id joins the missing ones
CacheScan(c, userIDs, t) ==
    IF userIDs = <<>>
    THEN [result |-> <<>>, missingUsers |-> <<>>, found |-> <<>>, cache |-> c]
    ELSE LET userID == Head(userIDs)
             l == Lookup(c, userID, t)
             rest == CacheScan(l.cache, Tail(userIDs), t)
         IN IF l.hit
            THEN [rest EXCEPT !.result = rest.result @@ (userID :> l.presence),
                              !.found = <<l.found>> \o rest.found]
            ELSE [rest EXCEPT !.missingUsers = <<userID>> \o rest.missingUsers,
                              !.found = <<l.found>> \o rest.found]

RECURSIVE CacheSetAll(_, _)
\* GetMultiplePresences, lines 114-117: every store result is set in the
\* cache, in the iteration order of the map.  The caches this can leave and
\* the calls made
CacheSetAll(c, m) ==
    IF DOMAIN m = {} THEN [caches |-> {c}, sets |-> {}]
    ELSE LET after(k, c2) == CacheSetAll(c2, [x \in DOMAIN m \ {k} |-> m[x]])
         IN [caches |-> UNION {UNION {after(k, c2).caches :
                                      c2 \in ServiceCacheSet(c, k, m[k]).caches} :
                               k \in DOMAIN m},
             sets |-> UNION {ServiceCacheSet(c, k, m[k]).sets : k \in DOMAIN m}]

\* PresenceService.GetMultiplePresences
GetMultiplePresences(userIDs, up) ==
    LET scan == CacheScan(cache, userIDs, now)
        s == KVGetMultiple(store, scan.missingUsers, up)
        put == CacheSetAll(scan.cache, s.result)
        r == [Idle EXCEPT !.op = "GetMultiplePresences", !.userIDs = userIDs,
                          !.up = up, !.found = scan.found]
    IN /\ ret.op = "none"
       /\ UNCHANGED <<now, store, written, brokers, built, watch, metrics, calls, boot>>
       /\ IF Len(scan.missingUsers) = 0
          THEN /\ cache' = scan.cache
               /\ ret' = [r EXCEPT !.vals = scan.result]
          ELSE IF s.err # "nil"
          THEN /\ cache' = scan.cache
               /\ ret' = [r EXCEPT !.err = "failed to get presences from store",
                                   !.calls = <<Call("GetMultiple", scan.missingUsers, s.err)>>]
          ELSE /\ cache' \in put.caches
               /\ ret' = [r EXCEPT !.vals = s.result @@ scan.result,
                                   !.calls = <<Call("GetMultiple", scan.missingUsers, "nil")>>,
                                   !.sets = put.sets]

\* The store the service was built over (ServiceBuilder.Build): handle "s1",
\* a center attached to the bucket of the broker at RemoteURL
ServiceStore == "s1"
ServiceConfig == KVConfig(RemoteURL, "", FALSE, "center", "", "")

\* PresenceService.Close.  kvStore.Close is cleanup and returns nil;
\* storeCloseErr is what the Close of another KVStore the service was given
\* may return instead
Close(storeCloseErr) ==
    LET c == cleanup(built[ServiceStore], brokers.running)
        r == [Idle EXCEPT !.op = "Close"]
    IN /\ ret.op = "none"
       /\ UNCHANGED <<now, store, written, watch, metrics, http, calls, boot>>
       /\ IF storeCloseErr # "nil"
          THEN /\ UNCHANGED <<cache, brokers, built, watch, metrics>>
               /\ ret' = [r EXCEPT !.err = "failed to close store",
                                   !.calls = <<Call("Close", <<>>, storeCloseErr)>>]
          ELSE /\ built' = [built EXCEPT ![ServiceStore] = c.s]
               /\ brokers' = [brokers EXCEPT !.running = c.running]
               /\ cache' = CacheClear(cache)
               /\ ret' = [r EXCEPT !.calls = <<Call("Close", <<>>, "nil")>>]

\* ------------------------------------------------------------ environment
TickAppliesRecordTTL ==
    /\ ret.op = "none"
    /\ now < MaxTime
    /\ now' = now + 1
    /\ store' = [k \in Keys |->
                    IF store[k].present
                       /\ \/ (now + 1) - store[k].created > Hour
                          \/ IsExpired(Unmarshal(store[k].data).presence, now + 1)
                    THEN NoEntry ELSE store[k]]
    /\ UNCHANGED <<cache, ret, written, brokers, built, watch, metrics, http, calls, boot>>

\* Time passes; the broker drops bucket entries older than the bucket's TTL
Tick ==
    /\ ret.op = "none"
    /\ now < MaxTime
    /\ now' = now + 1
    /\ store' = [k \in Keys |->
                    IF store[k].present /\ (now + 1) - store[k].created > Hour
                    THEN NoEntry ELSE store[k]]
    /\ UNCHANGED <<cache, ret, written, brokers, built, watch, metrics, http, calls, boot>>

\* The call's result is handed to the caller, who may then call again
Return ==
    /\ ret.op # "none"
    /\ ret' = Idle
    /\ UNCHANGED <<now, store, cache, written, brokers, built, watch, metrics, http, calls, boot>>

\* The presences callers hand to SetPresence(userID, ...): a plain one; one
\* with a message, a TTL and client-chosen node id and timestamps; one with a
\* negative TTL; one with an invalid status; one without user id; one that
\* names another user
Requests(userID) ==
    {Presence(userID, StatusOnline, "", ZeroTime, ZeroTime, "", 0),
     Presence(userID, StatusBusy, "hi", MaxTime + 1, MaxTime + 1, "client", 1),
     Presence(userID, StatusAway, "", ZeroTime, ZeroTime, "client", -1),
     Presence(userID, "bogus", "hi", ZeroTime, ZeroTime, "", 0),
     Presence("", StatusOnline, "", ZeroTime, ZeroTime, "client", 0)}
    \cup {Presence(u, StatusOffline, "", ZeroTime, ZeroTime, "", 0) :
          u \in Users \ {userID}}

RECURSIVE SeqsUpTo(_, _)
SeqsUpTo(S, n) ==
    IF n = 0 THEN {<<>>}
    ELSE LET shorter == SeqsUpTo(S, n - 1)
         IN shorter \cup {Append(q, x) : q \in shorter, x \in S}

\* The id lists callers hand to GetMultiplePresences
IdLists == SeqsUpTo(Users, MaxIds)

\* Whether the broker answers during a call: it may or may not while the
\* store's connection is open, and cannot once it is closed
Up == IF built[ServiceStore].conn = "open" THEN BOOLEAN ELSE {FALSE}

\* No HTTP request is being handled.  method and path: the request line; id:
\* the {user_id} of the path; token: the Authorization header; status: the
\* status code answered; handler: the handler the request reached, "" when a
\* middleware answered it
NoExchange ==
    [method |-> "", path |-> "", id |-> "", token |-> "", status |-> 0,
     handler |-> ""]

\* The callers whose service calls may overlap
Callers == {"c1", "c2"}

\* A caller with no call in progress.  pc: the statement it is at; got: what
\* its store.Get returned
NoCall ==
    [pc |-> "idle", op |-> "", userID |-> "", presence |-> ZeroPresence,
     got |-> ZeroPresence]

\* No broker is being started
NoBoot ==
    [state |-> "none", nodeType |-> "", StartTimeout |-> "", timeout |-> 0,
     elapsed |-> 0, readyAt |-> 0, polls |-> 0]

NoBrokers == [running |-> {}, buckets |-> {}]

Init ==
    /\ now = 1
    /\ store = [k \in Keys |-> NoEntry]
    /\ cache = [u \in Users |-> NoItem]
    /\ ret = Idle
    /\ written = [u \in Users |-> NoItem]
    /\ watch = NoWatch
    /\ metrics = NoMetrics
    /\ http = NoExchange
    /\ calls = [c \in Callers |-> NoCall]
    /\ boot = NoBoot
    /\ LET n == NewKVStore(ServiceConfig, ServiceStore, "none", 0, NoBrokers)
       IN /\ brokers = n.brokers
          /\ built = [h \in Handles |-> IF h = ServiceStore THEN n.s ELSE NoStore]

Next ==
    \/ \E userID \in Users, up \in Up :
          GetPresence(userID, up) /\ UNCHANGED http
    \/ \E userID \in Users, up \in Up :
          \E presence \in Requests(userID) :
             SetPresence(userID, presence, up) /\ UNCHANGED http
    \/ \E userIDs \in IdLists, up \in Up :
          GetMultiplePresences(userIDs, up) /\ UNCHANGED http
    \/ \E storeCloseErr \in {"nil", "boom"} : Close(storeCloseErr)
    \/ Tick
    \/ Return

Spec == Init /\ [][Next]_vars

\* ------------------------------------------ the durable store, used directly
\* written, for the store: the last write under the user's key, "presence"
\* (a Set of p; prev is the Message and TTL of the record that Set replaced,
\* when it replaced one written by Set), "deleted" or "foreign" (a payload
\* put by another client of the bucket)
NoPrev == [kind |-> "none", Message |-> "", TTL |-> 0]

Written(kind, p, prev) == [kind |-> kind, p |-> p, prev |-> prev]

Replaced(w) ==
    IF w.kind = "presence"
    THEN [kind |-> "presence", Message |-> w.p.Message, TTL |-> w.p.TTL]
    ELSE NoPrev

\* kvStore.Get, called on the store
StoreGet(userID, up) ==
    LET g == KVGet(store, userID, up)
    IN /\ ret.op = "none"
       /\ ret' = [Idle EXCEPT !.op = "Get", !.userID = userID, !.up = up,
                              !.err = g.err, !.val = g.presence]
       /\ UNCHANGED <<now, store, cache, written, brokers, built, watch, metrics, http, calls, boot>>

\* kvStore.Set, called on the store
StoreSet(userID, presence, up) ==
    LET w == KVSet(store, userID, presence, presence.TTL, now, up)
    IN /\ ret.op = "none"
       /\ store' = w.store
       /\ written' = IF w.err = "nil"
                     THEN [written EXCEPT ![userID] =
                              Written("presence", presence, Replaced(written[userID]))]
                     ELSE written
       /\ ret' = [Idle EXCEPT !.op = "Set", !.userID = userID, !.up = up,
                              !.presence = presence, !.err = w.err]
       /\ watch' = IF w.err = "nil"
                   THEN Notify(watch, EntryOf(w.store, presenceKey(userID)))
                   ELSE watch
       /\ UNCHANGED <<now, cache, brokers, built, metrics, http, calls, boot>>

\* kvStore.Delete, called on the store
StoreDelete(userID, up, strict) ==
    LET d == KVDelete(store, userID, up, strict)
        b == BucketDelete(store, presenceKey(userID), up, strict)
    IN /\ ret.op = "none"
       /\ store' = d.store
       /\ written' = IF d.err = "nil"
                     THEN [written EXCEPT ![userID] =
                              Written("deleted", ZeroPresence, NoPrev)]
                     ELSE written
       /\ ret' = [Idle EXCEPT !.op = "Delete", !.userID = userID, !.up = up,
                              !.err = d.err,
                              !.calls = <<Call("kv.Delete", <<userID>>, b.err)>>]
       /\ watch' = IF b.err = "nil"
                   THEN Notify(watch, EntryOf(b.store, presenceKey(userID)))
                   ELSE watch
       /\ UNCHANGED <<now, cache, brokers, built, metrics, http, calls, boot>>

\* The payloads another client of the bucket may put under a key: none at
\* all, bytes that are not JSON, a record without status
ForeignData(userID) ==
    {EmptyData, GarbageData,
     [kind |-> "json", obj |-> [user_id |-> userID, node_id |-> "node2"]]}

\* kv.Put by another client (as TestGet_UnmarshalOrValidateFailure does)
ForeignPut(userID, data) ==
    /\ ret.op = "none"
    /\ store' = [store EXCEPT ![presenceKey(userID)] =
                    [present |-> TRUE, data |-> data, created |-> now]]
    /\ written' = [written EXCEPT ![userID] =
                      Written("foreign", ZeroPresence, NoPrev)]
    /\ watch' = Notify(watch, KVEntry(presenceKey(userID), "KeyValuePut", data))
    /\ UNCHANGED <<now, cache, ret, brokers, built, metrics, http, calls, boot>>

\* The records callers hand to kvStore.Set, which takes them as they are;
\* UpdatedAt is the time of the call, as it is when the service calls
StoreRequests(userID) ==
    {Presence(userID, StatusBusy, "hi", now, now, "node1", 1),
     Presence(userID, StatusOnline, "", ZeroTime, now, "node2", 0),
     Presence(userID, "bogus", "hi", now, now, "node1", 0),
     Presence(userID, StatusOnline, "", now, now, "", 0)}

StoreNext ==
    \/ \E userID \in Users, up \in BOOLEAN : StoreGet(userID, up)
    \/ \E userID \in Users, up \in BOOLEAN :
          \E presence \in StoreRequests(userID) : StoreSet(userID, presence, up)
    \/ \E userID \in Users, up \in BOOLEAN, strict \in BOOLEAN :
          StoreDelete(userID, up, strict)
    \/ \E userID \in Users : \E data \in ForeignData(userID) : ForeignPut(userID, data)
    \/ Tick
    \/ Return

StoreSpec == Init /\ [][StoreNext]_vars

\* --------------------------------------------------- constructing the store
\* The configurations callers pass to NewKVStore
Configs ==
    {c \in [ServerURL : {"", RemoteURL}, BucketName : {"", "presence"},
            Embedded : BOOLEAN, NodeType : {"", "center", "leaf"},
            CenterURL : {"", HubURL}, LeafPort : {0, 7422},
            ClusterPort : {0, 6222}, StartTimeout : {"", "200ms", "soon"}] :
        /\ ~c.Embedded => (c.StartTimeout = "" /\ c.LeafPort = 0 /\ c.ClusterPort = 0)
        /\ c.ClusterPort # 0 => c.LeafPort # 0
        /\ c.LeafPort # 0 =>
              (c.StartTimeout = "" /\ c.BucketName = "" /\ c.ServerURL = "")}

\* What can go wrong in one call: nothing, or one of its steps
Faults(config) ==
    {"none", "connect", "js", "kv"}
    \cup (IF config.Embedded THEN {"server"} ELSE {})
    \cup (IF nodeTypeOf(config) = "center" THEN {"exists"} ELSE {})

\* When the broker a call starts is ready
ReadyTimes(config, fault) ==
    IF config.Embedded /\ fault = "none" THEN 0 .. MaxReady ELSE {0}

\* NewKVStore, called for a handle that holds no open store
Construct(h, config, fault, readyAt) ==
    LET n == NewKVStore(config, h, fault, readyAt, brokers)
    IN /\ ret.op = "none"
       /\ built[h].conn # "open"
       /\ brokers' = n.brokers
       /\ built' = [built EXCEPT ![h] = IF n.store THEN n.s ELSE NoStore]
       /\ ret' = [op |-> "NewKVStore", h |-> h, config |-> config,
                  fault |-> fault, readyAt |-> readyAt, err |-> n.err,
                  store |-> n.store, s |-> n.s, started |-> n.started,
                  options |-> n.options,
                  dialled |-> n.dialled, elapsed |-> n.elapsed,
                  timeout |-> n.timeout]
       /\ UNCHANGED <<now, store, cache, written, watch, metrics, http, calls, boot>>

\* kvStore.Close, called on an open store
StoreClose(h) ==
    LET c == cleanup(built[h], brokers.running)
    IN /\ ret.op = "none"
       /\ built[h].conn = "open"
       /\ built' = [built EXCEPT ![h] = c.s]
       /\ brokers' = [brokers EXCEPT !.running = c.running]
       /\ ret' = [op |-> "kvStore.Close", h |-> h, err |-> NilErr]
       /\ UNCHANGED <<now, store, cache, written, watch, metrics, http, calls, boot>>

\* A record is written through an open store attached to the bucket of the
\* broker at RemoteURL
Put(h, userID) ==
    /\ built[h].conn = "open"
    /\ built[h].kv # ""
    /\ built[h].url = RemoteURL
    /\ StoreSet(userID, Presence(userID, StatusOnline, "", now, now, nodeID, 0), TRUE)

ConstructNext ==
    \/ \E h \in Handles, config \in Configs :
          \E fault \in Faults(config) :
             \E readyAt \in ReadyTimes(config, fault) :
                Construct(h, config, fault, readyAt)
    \/ \E h \in Handles : StoreClose(h)
    \/ \E h \in Handles : Put(h, "u1")
    \/ Return

ConstructSpec == Init /\ [][ConstructNext]_vars

\* ------------------------------------------------------ watching the bucket
\* The orders in which a watcher may be sent the bucket's entries
Orders(S) ==
    {q \in SeqsUpTo(S, Cardinality(S)) :
        Len(q) = Cardinality(S) /\ {q[i] : i \in DOMAIN q} = S}

\* kvStore.Watch, lines 520-524 and 558: the watcher is made, the goroutine
\* is started and Watch returns
Watch(up) ==
    /\ ret.op = "none"
    /\ watch.goroutine = "none"
    /\ ret' = [Idle EXCEPT !.op = "Watch", !.up = up,
                           !.err = IF up THEN "nil" ELSE "failed"]
    /\ IF up
       THEN \E order \in Orders({k \in Keys : store[k] # NoEntry}) :
               watch' = [NoWatch EXCEPT !.goroutine = "running",
                                        !.watcher = "active",
                                        !.Updates = WatchAll(store, order)]
       ELSE UNCHANGED watch
    /\ UNCHANGED <<now, store, cache, written, brokers, built, metrics, http, calls, boot>>

\* Watch, lines 529-552: the goroutine receives an entry from Updates(); on
\* the nil entry it returns, on any other it invokes the callback
WatchUpdate ==
    /\ watch.goroutine = "running"
    /\ watch.Updates # <<>>
    /\ LET entry == Head(watch.Updates)
           w == [watch EXCEPT !.Updates = Tail(@), !.taken = Append(@, entry)]
       IN watch' = IF entry = NilEntry THEN GoroutineExit(w)
                   ELSE [w EXCEPT !.events = Append(@, WatchEventOf(entry))]
    /\ UNCHANGED <<now, store, cache, ret, written, brokers, built, metrics, http, calls, boot>>

\* Watch, lines 553-554: the goroutine finds the context done and returns
WatchDone ==
    /\ watch.goroutine = "running"
    /\ watch.ctx = "cancelled"
    /\ watch' = GoroutineExit(watch)
    /\ UNCHANGED <<now, store, cache, ret, written, brokers, built, metrics, http, calls, boot>>

\* The caller cancels the context it gave to Watch
Cancel ==
    /\ watch.goroutine # "none"
    /\ watch.ctx = "live"
    /\ watch' = [watch EXCEPT !.ctx = "cancelled"]
    /\ UNCHANGED <<now, store, cache, ret, written, brokers, built, metrics, http, calls, boot>>

\* The records written to the watched bucket
WatchRequests(userID) ==
    {Presence(userID, StatusBusy, "hi", now, now, "node1", 1)}

\* The watcher's channel has room
Room == Len(watch.taken) + Len(watch.Updates) < MaxUpdates

WatchNext ==
    \/ \E up \in BOOLEAN : Watch(up)
    \/ WatchUpdate
    \/ WatchDone
    \/ Cancel
    \/ \E userID \in Users : \E presence \in WatchRequests(userID) :
          Room /\ StoreSet(userID, presence, TRUE)
    \/ \E userID \in Users : Room /\ StoreDelete(userID, TRUE, FALSE)
    \/ \E userID \in Users : Room /\ ForeignPut(userID, GarbageData)
    \/ Return

WatchSpec == Init /\ [][WatchNext]_vars

\* The goroutine is scheduled, and its select, which chooses at random among
\* the cases that are ready, does not pass over the done context for ever
WatchLive == WatchSpec /\ WF_vars(WatchUpdate) /\ WF_vars(WatchDone)

\* ------------------------------------------------------ the cache by itself
\* The record another node stored for u1 before the cache was made
StoredRecord == Presence("u1", StatusOnline, "", 1, 1, "node1", 0)

\* A new cache, with or without metrics, next to a bucket that holds a record
CacheInit ==
    /\ now = 1
    /\ store = [k \in Keys |->
                  IF k = presenceKey("u1")
                  THEN [present |-> TRUE, data |-> Marshal(StoredRecord), created |-> 1]
                  ELSE NoEntry]
    /\ cache = [u \in Users |-> NoItem]
    /\ ret = Idle
    /\ written = [u \in Users |-> NoItem]
    /\ watch = NoWatch
    /\ metrics \in {[NoMetrics EXCEPT !.Metrics = on] : on \in BOOLEAN}
    /\ http = NoExchange
    /\ calls = [c \in Callers |-> NoCall]
    /\ boot = NoBoot
    /\ LET n == NewKVStore(ServiceConfig, ServiceStore, "none", 0, NoBrokers)
       IN /\ brokers = n.brokers
          /\ built = [h \in Handles |-> IF h = ServiceStore THEN n.s ELSE NoStore]

\* ristrettoCache.Get, called on the cache.  had: the item the key had; set:
\* what written kept for the key
CacheGetOp(userID) ==
    LET g == CacheGet(cache, userID, now)
        removed == cache[userID].kind # "none" /\ g.cache[userID].kind = "none"
    IN /\ ret.op = "none"
       /\ cache' = g.cache
       /\ metrics' = IF removed THEN MetricsDel(metrics) ELSE metrics
       /\ written' = IF removed THEN [u \in Users |-> NoItem] ELSE written
       /\ ret' = [op |-> "cache.Get", userID |-> userID, had |-> cache[userID],
                  set |-> written[userID], found |-> g.found, val |-> g.presence]
       /\ UNCHANGED <<now, store, brokers, built, watch, http, calls, boot>>

\* ristrettoCache.Set, called on the cache.  written keeps, for the key of
\* the last Set, what was set, Size() before the call, whether the key was
\* new, whether the call evicted nothing and found nothing unprocessed, the
\* item and the counters the call left, and the time of the call
CacheSetOp(userID, presence, ttl) ==
    /\ ret.op = "none"
    /\ \E c2 \in CacheSet(cache, userID, presence, ttl) :
          LET m == MetricsSet(metrics, cache, c2, userID)
              evicted == {u \in Users \ {userID} :
                            cache[u].kind # "none" /\ c2[u].kind = "none"}
          IN /\ cache' = c2
             /\ metrics' = m
             /\ written' = [u \in Users |->
                               IF u = userID
                               THEN [kind |-> "set", p |-> presence, ttl |-> ttl,
                                     size |-> Size(metrics),
                                     fresh |-> cache[userID].kind = "none",
                                     quiet |-> evicted = {} /\ metrics.pending = 0,
                                     item |-> c2[userID], after |-> m,
                                     at |-> now]
                               ELSE NoItem]
    /\ ret' = [op |-> "cache.Set", userID |-> userID, presence |-> presence,
               ttl |-> ttl]
    /\ UNCHANGED <<now, store, brokers, built, watch, http, calls, boot>>

\* ristrettoCache.Delete, called on the cache.  set: what written kept for
\* the key; before: the counters before the call
CacheDeleteOp(userID) ==
    /\ ret.op = "none"
    /\ cache' = CacheDelete(cache, userID)
    /\ metrics' = MetricsDelete(metrics, cache, userID)
    /\ written' = [u \in Users |-> NoItem]
    /\ ret' = [op |-> "cache.Delete", userID |-> userID,
               set |-> written[userID], before |-> metrics]
    /\ UNCHANGED <<now, store, brokers, built, watch, http, calls, boot>>

\* ristrettoCache.Clear, called on the cache
CacheClearOp ==
    /\ ret.op = "none"
    /\ cache' = CacheClear(cache)
    /\ metrics' = MetricsClear(metrics)
    /\ written' = [u \in Users |-> NoItem]
    /\ ret' = [op |-> "cache.Clear"]
    /\ UNCHANGED <<now, store, brokers, built, watch, http, calls, boot>>

\* ristrettoCache.Size, called on the cache
CacheSizeOp ==
    /\ ret.op = "none"
    /\ ret' = [op |-> "cache.Size", size |-> Size(metrics)]
    /\ UNCHANGED <<now, store, cache, written, brokers, built, watch, metrics, http, calls, boot>>

\* rc.cache.Set(key, 12345, 1) and rc.cache.Wait() on the underlying cache
CorruptPut(userID) ==
    /\ ret.op = "none"
    /\ \E c2 \in CorruptSet(cache, userID) :
          /\ cache' = c2
          /\ metrics' = MetricsSet(metrics, cache, c2, userID)
    /\ written' = [u \in Users |-> NoItem]
    /\ ret' = [op |-> "ristretto.Set", userID |-> userID]
    /\ UNCHANGED <<now, store, brokers, built, watch, http, calls, boot>>

\* ristretto's processItems goroutine gets to the deletions Get has sent
ProcessItems ==
    /\ metrics.pending > 0
    /\ metrics' = Waited(metrics)
    /\ UNCHANGED <<now, store, cache, ret, written, brokers, built, watch, http, calls, boot>>

\* The records and the ttl arguments callers hand to ristrettoCache.Set
CacheRequests(userID) ==
    {Presence(userID, StatusOnline, "", 1, 1, "node1", 0),
     Presence(userID, StatusBusy, "hi", 1, 1, "node1", 2)}

CacheTTLs == {0, 1}

CacheNext ==
    \/ \E userID \in Users : CacheGetOp(userID)
    \/ \E userID \in Users : \E presence \in CacheRequests(userID), ttl \in CacheTTLs :
          metrics.KeysAdded < MaxAdded /\ CacheSetOp(userID, presence, ttl)
    \/ \E userID \in Users : CacheDeleteOp(userID)
    \/ CacheClearOp
    \/ CacheSizeOp
    \/ \E userID \in Users : metrics.KeysAdded < MaxAdded /\ CorruptPut(userID)
    \/ ProcessItems
    \/ \E userID \in Users, up \in Up :
          metrics.KeysAdded < MaxAdded /\ GetPresence(userID, up) /\ UNCHANGED http
    \/ Tick
    \/ Return

CacheSpec == CacheInit /\ [][CacheNext]_vars

\* ------------------------------------------------------------- the HTTP API
\* Requests come without an Origin header, which CORSMiddleware passes on
\* untouched.
\*
\* The Authorization header of a request.  scheme: "" (no header), "Basic" or
\* "Bearer"; signed: the token parses and its HMAC signature is the server's;
\* expired: its exp claim is in the past; iss and sub: its claims
Token(scheme, signed, expired, iss, sub) ==
    [scheme |-> scheme, signed |-> signed, expired |-> expired, iss |-> iss,
     sub |-> sub]

NoToken == Token("", FALSE, FALSE, "", "")

JWTIssuer == "presence-service"    \* config.Auth.JWTIssuer, as main passes it

\* JWTMiddleware.validateToken: the error's text, "nil" for a token it accepts
validateToken(token) ==
    IF token.scheme = "" THEN "missing authorization header"
    ELSE IF token.scheme # "Bearer" THEN "invalid authorization header format"
    ELSE IF ~token.signed \/ token.expired THEN "invalid token"
    ELSE IF JWTIssuer # "" /\ token.iss # JWTIssuer THEN "invalid token issuer"
    ELSE "nil"

\* JWTMiddleware.Authenticate: next, whether the wrapped handler is called;
\* status, what is answered when it is not; userID, what is put in the context
Authenticate(token) ==
    IF validateToken(token) # "nil" \/ token.sub = ""
    THEN [next |-> FALSE, status |-> 401, userID |-> ""]
    ELSE [next |-> TRUE, status |-> 0, userID |-> token.sub]

\* JWTMiddleware.OptionalAuthenticate: the wrapped handler is always called
OptionalAuthenticate(token) ==
    [next |-> TRUE, status |-> 0,
     userID |-> IF validateToken(token) = "nil" THEN token.sub ELSE ""]

\* main, lines 55-58: the middleware the whole router is wrapped in
mainAuth(token) == OptionalAuthenticate(token)

\* A request body.  kind "json": a SetPresenceRequest or BatchPresenceRequest
Body(kind, status, message, ttl) ==
    [kind |-> kind, Status |-> status, Message |-> message, TTL |-> ttl]

\* json.NewDecoder(r.Body).Decode(&req)
Decode(body) ==
    IF body.kind # "json"
    THEN [err |-> "invalid JSON", req |-> Body("json", "", "", 0)]
    ELSE [err |-> "nil", req |-> body]

\* Everything but the exchange and the service's result stays as it is
NotServed ==
    UNCHANGED <<now, store, cache, ret, written, brokers, built, watch,
                metrics, calls, boot>>

ReadyProbesByDelete(up) ==
    LET d == KVDelete(store, "u1", up, FALSE)
    IN /\ ret.op = "none"
       /\ store' = d.store
       /\ ret' = [Idle EXCEPT !.op = "Ready", !.up = up, !.err = d.err,
                              !.calls = <<Call("GetMultiple", <<>>, d.err)>>]
       /\ UNCHANGED <<now, cache, written, brokers, built, watch, metrics,
                      calls, boot>>

\* PresenceService.Ready
Ready(up) ==
    LET s == KVGetMultiple(store, <<>>, up)
    IN /\ ret.op = "none"
       /\ ret' = [Idle EXCEPT !.op = "Ready", !.up = up, !.err = s.err,
                              !.calls = <<Call("GetMultiple", <<>>, s.err)>>]
       /\ UNCHANGED <<now, store, cache, written, brokers, built, watch,
                      metrics, calls, boot>>

\* PUT /api/v2/presence/{user_id}: the middleware, then
\* PresenceHandler.SetPresence
HandleSetPresence(id, token, body, up) ==
    LET mw == mainAuth(token)
        x == [NoExchange EXCEPT !.method = "PUT", !.path = "/api/v2/presence/",
                                !.id = id, !.token = token]
        h == [x EXCEPT !.handler = "SetPresence"]
        d == Decode(body)
        presence == Presence(id, d.req.Status, d.req.Message, now, now,
                             "current-node",
                             IF d.req.TTL > 0 THEN d.req.TTL ELSE 0)
    IN /\ ret.op = "none"
       /\ http = NoExchange
       /\ IF ~mw.next
          THEN http' = [x EXCEPT !.status = mw.status] /\ NotServed
          ELSE IF d.err # "nil" \/ ~IsValid(d.req.Status)
          THEN http' = [h EXCEPT !.status = 400] /\ NotServed
          ELSE /\ SetPresence(id, presence, up)
               /\ http' = [h EXCEPT !.status = IF ret'.err # "nil" THEN 500
                                               ELSE 200]

\* GET /api/v2/presence/{user_id}: PresenceHandler.GetPresence
HandleGetPresence(id, token, up) ==
    LET mw == mainAuth(token)
        x == [NoExchange EXCEPT !.method = "GET", !.path = "/api/v2/presence/",
                                !.id = id, !.token = token]
        h == [x EXCEPT !.handler = "GetPresence"]
    IN /\ ret.op = "none"
       /\ http = NoExchange
       /\ IF ~mw.next
          THEN http' = [x EXCEPT !.status = mw.status] /\ NotServed
          ELSE /\ GetPresence(id, up)
               /\ http' = [h EXCEPT !.status =
                              IF ret'.err = "nil" THEN 200
                              ELSE IF ret'.err = "PresenceNotFoundError" THEN 404
                              ELSE 500]

\* POST /api/v2/presence/batch: PresenceHandler.BatchPresence
HandleBatchPresence(userIDs, token, up) ==
    LET mw == mainAuth(token)
        x == [NoExchange EXCEPT !.method = "POST",
                                !.path = "/api/v2/presence/batch",
                                !.token = token]
        h == [x EXCEPT !.handler = "BatchPresence"]
    IN /\ ret.op = "none"
       /\ http = NoExchange
       /\ IF ~mw.next
          THEN http' = [x EXCEPT !.status = mw.status] /\ NotServed
          ELSE IF Len(userIDs) = 0
          THEN http' = [h EXCEPT !.status = 400] /\ NotServed
          ELSE /\ GetMultiplePresences(userIDs, up)
               /\ http' = [h EXCEPT !.status = IF ret'.err # "nil" THEN 500
                                               ELSE 200]

\* GET /health/readiness: HealthHandler.Readiness over the service
Readiness(token, up) ==
    LET mw == mainAuth(token)
        x == [NoExchange EXCEPT !.method = "GET", !.path = "/health/readiness",
                                !.token = token]
        h == [x EXCEPT !.handler = "Readiness"]
    IN /\ ret.op = "none"
       /\ http = NoExchange
       /\ IF ~mw.next
          THEN http' = [x EXCEPT !.status = mw.status] /\ NotServed
          ELSE /\ Ready(up)
               /\ http' = [h EXCEPT !.status = IF ret'.err # "nil" THEN 503
                                               ELSE 200]

\* The response has gone out; the server takes the next request
Respond ==
    /\ http # NoExchange
    /\ http' = NoExchange
    /\ ret' = Idle
    /\ UNCHANGED <<now, store, cache, written, brokers, built, watch, metrics,
                   calls, boot>>

\* The Authorization headers clients send: none, another scheme, a forged
\* token, an expired one, one of another issuer, one without subject, a good
\* one
Tokens ==
    {NoToken,
     Token("Basic", FALSE, FALSE, "", ""),
     Token("Bearer", FALSE, FALSE, JWTIssuer, "u1"),
     Token("Bearer", TRUE, TRUE, JWTIssuer, "u1"),
     Token("Bearer", TRUE, FALSE, "someone-else", "u1"),
     Token("Bearer", TRUE, FALSE, JWTIssuer, ""),
     Token("Bearer", TRUE, FALSE, JWTIssuer, "u1")}

\* The bodies clients PUT: a status; one with message and ttl; one with a
\* negative ttl; an invalid status; bytes that are not JSON
PutBodies ==
    {Body("json", StatusOnline, "", 0),
     Body("json", StatusBusy, "hi", 1),
     Body("json", StatusAway, "", -1),
     Body("json", "bogus", "", 0),
     Body("garbage", "", "", 0)}

\* The PUT requests clients send: every body under a good token, and a plain
\* body under every token
PutRequests ==
    {[token |-> Token("Bearer", TRUE, FALSE, JWTIssuer, "u1"), body |-> body] :
        body \in PutBodies}
    \cup {[token |-> token, body |-> Body("json", StatusOnline, "", 0)] :
           token \in Tokens}

\* The id lists clients POST: none, one id, two ids
BatchLists == {<<>>, <<"u1">>, <<"u2", "u1">>}

ApiNext ==
    \/ \E id \in Users, up \in Up : \E r \in PutRequests :
          HandleSetPresence(id, r.token, r.body, up)
    \/ \E id \in Users, up \in Up : HandleGetPresence(id, NoToken, up)
    \/ \E userIDs \in BatchLists, up \in Up :
          HandleBatchPresence(userIDs, NoToken, up)
    \/ \E up \in Up : Readiness(NoToken, up)
    \/ http = NoExchange /\ CorruptPut("u1")
    \/ http = NoExchange /\ Tick
    \/ http = NoExchange /\ Return
    \/ Respond

ApiSpec == Init /\ [][ApiNext]_vars

\* ------------------------------------------------- two nodes over one bucket
otherNodeID == "node2"   \* the nodeID of another node's PresenceService

\* PresenceService.SetPresence called at another node, whose store is attached
\* to the same bucket: the record goes to the bucket and to that node's own
\* cache; this node's cache is not told
OtherNodeSetPresence(userID, presence) ==
    LET p == [presence EXCEPT !.NodeID = otherNodeID, !.UpdatedAt = now,
                              !.LastSeen = now]
        w == KVSet(store, userID, p, p.TTL, now, TRUE)
    IN /\ ret.op = "none"
       /\ Validate(p) = "nil"
       /\ store' = w.store
       /\ written' = [written EXCEPT ![userID] = Item(p)]
       /\ UNCHANGED <<now, cache, ret, brokers, built, watch, metrics, http,
                      calls, boot>>

\* The presences callers hand to SetPresence at either node: one that expires
\* after a tick and one that never does
NodeRequests(userID) ==
    {Presence(userID, StatusOnline, "", ZeroTime, ZeroTime, "", 1),
     Presence(userID, StatusBusy, "hi", ZeroTime, ZeroTime, "", 0)}

NodesNext ==
    \/ \E userID \in Users, up \in Up :
          GetPresence(userID, up) /\ UNCHANGED http
    \/ \E userID \in Users, up \in Up :
          \E presence \in NodeRequests(userID) :
             SetPresence(userID, presence, up) /\ UNCHANGED http
    \/ \E userID \in Users : \E presence \in NodeRequests(userID) :
          OtherNodeSetPresence(userID, presence)
    \/ Tick
    \/ Return

NodesSpec == Init /\ [][NodesNext]_vars

\* ------------------------------------------- the readiness loop, turn by turn
\* startEmbeddedServer up to line 680: the broker is created and started in
\* the background and the timeout is chosen.  fault "server":
\* server.NewServer fails and nothing is polled
StartServer(config, fault, readyAt) ==
    /\ ret.op = "none"
    /\ boot.state = "none"
    /\ boot' = [NoBoot EXCEPT !.state = IF fault = "server" THEN "Failed"
                                        ELSE "Polling",
                              !.nodeType = nodeTypeOf(config),
                              !.StartTimeout = config.StartTimeout,
                              !.timeout = startTimeout(config),
                              !.readyAt = readyAt]
    /\ UNCHANGED <<now, store, cache, ret, written, brokers, built, watch,
                   metrics, http, calls>>

\* One turn of the loop
Poll ==
    /\ boot.state = "Polling"
    /\ boot.elapsed < MaxElapsed
    /\ boot' = PollStep(boot)
    /\ UNCHANGED <<now, store, cache, ret, written, brokers, built, watch,
                   metrics, http, calls>>

\* startEmbeddedServer has returned
Started ==
    /\ boot.state \in {"Ready", "Failed"}
    /\ boot' = NoBoot
    /\ UNCHANGED <<now, store, cache, ret, written, brokers, built, watch,
                   metrics, http, calls>>

\* The configurations of an embedded broker, as far as the loop reads them
PollConfigs ==
    {[KVConfig("", "", TRUE, nodeType, "", st) EXCEPT !.CenterURL =
         IF nodeType = "leaf" THEN HubURL ELSE ""] :
        nodeType \in {"", "center", "leaf"},
        st \in {"", "200ms", "soon", "0s", "-100ms"}}

PollNext ==
    \/ \E config \in PollConfigs, fault \in {"none", "server"} :
          \E readyAt \in (0 .. MaxReady) \cup {Never} :
             StartServer(config, fault, readyAt)
    \/ Poll
    \/ Started

PollSpec == Init /\ [][PollNext]_vars

\* The loop runs in the goroutine that called NewKVStore; its waits
\* (ReadyForConnections, time.Sleep) return after 100ms
PollLive == PollSpec /\ WF_vars(Poll)

\* ------------------------------------------------ callers that overlap
\* SetPresence and GetPresence called by several goroutines at once, each
\* followed from one access to the store or the cache to the next.  Nothing
\* in the service orders one caller's accesses against another's.
\*
\* SetPresence, lines 69-76: caller c stamps and validates its record
SetStamp(c, userID, presence) ==
    LET p == Stamp(presence, now)
    IN /\ calls[c].pc = "idle"
       /\ calls' = [calls EXCEPT ![c] =
                       IF Validate(p) # "nil" THEN NoCall
                       ELSE [NoCall EXCEPT !.pc = "store.Set",
                                           !.op = "SetPresence",
                                           !.userID = userID,
                                           !.presence = p]]
       /\ UNCHANGED <<now, store, cache, ret, written, brokers, built, watch,
                      metrics, http, boot>>

\* SetPresence, lines 79-81: s.store.Set; on an error the call returns
SetStore(c, up) ==
    LET w == KVSet(store, calls[c].userID, calls[c].presence,
                   calls[c].presence.TTL, now, up)
    IN /\ calls[c].pc = "store.Set"
       /\ store' = w.store
       /\ calls' = [calls EXCEPT ![c] = IF w.err # "nil" THEN NoCall
                                        ELSE [@ EXCEPT !.pc = "cache.Set"]]
       /\ UNCHANGED <<now, cache, ret, written, brokers, built, watch,
                      metrics, http, boot>>

\* SetPresence, line 84, and GetPresence, line 61: s.cache.Set of the record
\* the caller holds; then the call returns
CacheSetStep(c) ==
    /\ calls[c].pc = "cache.Set"
    /\ cache' \in CacheSet(cache, calls[c].userID, calls[c].presence,
                           calls[c].presence.TTL)
    /\ calls' = [calls EXCEPT ![c] = NoCall]
    /\ UNCHANGED <<now, store, ret, written, brokers, built, watch, metrics,
                   http, boot>>

\* GetPresence, lines 45-49: s.cache.Get; a hit that is not expired is
\* returned
GetCache(c, userID) ==
    LET g == CacheGet(cache, userID, now)
        call == [NoCall EXCEPT !.op = "GetPresence", !.userID = userID]
    IN /\ calls[c].pc = "idle"
       /\ cache' = g.cache
       /\ calls' = [calls EXCEPT ![c] =
                       IF g.found /\ ~IsExpired(g.presence, now) THEN NoCall
                       ELSE IF g.found THEN [call EXCEPT !.pc = "cache.Delete"]
                       ELSE [call EXCEPT !.pc = "store.Get"]]
       /\ UNCHANGED <<now, store, ret, written, brokers, built, watch,
                      metrics, http, boot>>

\* GetPresence, line 51: s.cache.Delete of the entry found expired
GetDelete(c) ==
    /\ calls[c].pc = "cache.Delete"
    /\ cache' = CacheDelete(cache, calls[c].userID)
    /\ calls' = [calls EXCEPT ![c] = [@ EXCEPT !.pc = "store.Get"]]
    /\ UNCHANGED <<now, store, ret, written, brokers, built, watch, metrics,
                   http, boot>>

\* GetPresence, lines 55-58: s.store.Get; on an error the call returns
GetStore(c, up) ==
    LET s == KVGet(store, calls[c].userID, up)
    IN /\ calls[c].pc = "store.Get"
       /\ calls' = [calls EXCEPT ![c] =
                       IF s.err # "nil" THEN NoCall
                       ELSE [@ EXCEPT !.pc = "cache.Set",
                                      !.presence = s.presence]]
       /\ UNCHANGED <<now, store, cache, ret, written, brokers, built, watch,
                      metrics, http, boot>>

\* The presences the callers hand to SetPresence
ConcRequests(userID) ==
    {Presence(userID, StatusOnline, "", ZeroTime, ZeroTime, "", 0),
     Presence(userID, StatusBusy, "hi", ZeroTime, ZeroTime, "", 1),
     Presence(userID, StatusAway, "", ZeroTime, ZeroTime, "", 0 - 1),
     Presence(userID, "bogus", "", ZeroTime, ZeroTime, "", 0)}

\* The user the overlapping calls are about
ConcUsers == {"u1"}

ConcNext ==
    \/ \E c \in Callers, userID \in ConcUsers :
          \E presence \in ConcRequests(userID) : SetStamp(c, userID, presence)
    \/ \E c \in Callers, up \in BOOLEAN : SetStore(c, up)
    \/ \E c \in Callers : CacheSetStep(c)
    \/ \E c \in Callers, userID \in ConcUsers : GetCache(c, userID)
    \/ \E c \in Callers : GetDelete(c)
    \/ \E c \in Callers, up \in BOOLEAN : GetStore(c, up)
    \/ Tick

ConcSpec == Init /\ [][ConcNext]_vars

\* ================================================================ claims
\* Notions the claims use, written out from their wording
WellFormed(p) ==
    /\ p.UserID # ""
    /\ p.NodeID # ""
    /\ p.Status \in {"online", "away", "busy", "offline"}

\* not expired by the record's own TTL: TTL zero, or age within the TTL
Fresh(p, t) == p.TTL = 0 \/ t - p.UpdatedAt <= p.TTL

Range(q) == {q[i] : i \in DOMAIN q}

StoredPresence(st, u) == Unmarshal(st[presenceKey(u)].data).presence

\* the bucket holds a record for u: an entry that decodes to a valid record
StoreHolds(st, u) ==
    /\ st[presenceKey(u)].present
    /\ st[presenceKey(u)].data.kind = "json"
    /\ WellFormed(StoredPresence(st, u))

\* the cache holds a non-expired record for u
CacheHolds(c, u, t) == c[u].kind = "presence" /\ Fresh(c[u].p, t)

SameContent(p, q) ==
    /\ p.Status = q.Status
    /\ p.Message = q.Message
    /\ p.TTL = q.TTL
    /\ p.NodeID = q.NodeID
    /\ p.UpdatedAt = q.UpdatedAt

\* C1: when the store write of a SetPresence fails, SetPresence returns an
\* error and the cache is exactly what it was before the call
C1_FailedWriteLeavesCache ==
    [][(/\ ret.op = "none"
        /\ ret'.op = "SetPresence"
        /\ \E i \in DOMAIN ret'.calls :
              ret'.calls[i].op = "Set" /\ ret'.calls[i].err # "nil")
       => (ret'.err # "nil" /\ cache' = cache)]_vars

\* C1 witness: a store write failed while the cache held another record for
\* the user, which is still there
C1_Witness ==
    /\ ret.op = "SetPresence"
    /\ ret.calls # <<>>
    /\ ret.calls[1].err # "nil"
    /\ cache[ret.userID].kind = "presence"
    /\ cache[ret.userID].p.Status # ret.presence.Status

\* C2: after a successful SetPresence the record in the store, the record
\* handed to the cache and the record the cache holds carry the service's
\* node id and UpdatedAt = LastSeen = the time of the call
C2_ServerStamps ==
    (ret.op = "SetPresence" /\ ret.err = "nil") =>
        LET e == store[presenceKey(ret.userID)]
            sp == StoredPresence(store, ret.userID)
            Stamped(p) == p.NodeID = nodeID /\ p.UpdatedAt = now /\ p.LastSeen = now
        IN /\ e.present
           /\ Stamped(sp)
           /\ ret.sets # {}
           /\ \A x \in ret.sets : Stamped(x.presence)
           /\ cache[ret.userID].kind = "presence" => Stamped(cache[ret.userID].p)

\* C2 witness: the caller supplied its own node id and timestamps, and the
\* write succeeded and was cached
C2_Witness ==
    /\ ret.op = "SetPresence"
    /\ ret.err = "nil"
    /\ ret.presence.NodeID = "client"
    /\ ret.presence.UpdatedAt # now
    /\ cache[ret.userID].kind = "presence"

C3_AtRest ==
    /\ \A u \in Users : store[presenceKey(u)].present => StoreHolds(store, u)
    /\ \A u \in Users : cache[u].kind = "presence" => WellFormed(cache[u].p)

C3_InvalidSetChangesNothing ==
    (/\ ret.op = "none"
     /\ ret'.op = "SetPresence"
     /\ ~WellFormed([ret'.presence EXCEPT !.NodeID = nodeID]))
    => (ret'.err # "nil" /\ store' = store /\ cache' = cache)

\* C3: every record in the store or in the cache has a non-empty UserID, a
\* non-empty NodeID and one of the four statuses, and a SetPresence whose
\* stamped record is not so returns an error and changes neither
C3_OnlyValidRecords == []C3_AtRest /\ [][C3_InvalidSetChangesNothing]_vars

\* C3 witness: an invalid SetPresence was refused while the store was
\* reachable and held a record for that user
C3_Witness ==
    /\ ret.op = "SetPresence"
    /\ ret.up
    /\ ret.err = "invalid presence"
    /\ store[presenceKey(ret.userID)].present

\* C4 as claimed: with the store reachable, a GetPresence after a successful
\* SetPresence for the id returns the record of that SetPresence
C4_ReadAfterWrite ==
    (/\ ret.op = "GetPresence"
     /\ ret.up
     /\ written[ret.userID].kind = "presence")
    => (ret.err = "nil" /\ SameContent(ret.val, written[ret.userID].p))

\* C4 amended: the same, for a GetPresence made no later than the bucket's
\* TTL (one hour) after the write
C4_ReadAfterWriteWithinBucketTTL ==
    (/\ ret.op = "GetPresence"
     /\ ret.up
     /\ written[ret.userID].kind = "presence"
     /\ now - written[ret.userID].p.UpdatedAt <= Hour)
    => (ret.err = "nil" /\ SameContent(ret.val, written[ret.userID].p))

\* C4 witness: the read fell back to the store and returned the written
\* record, message included
C4_Witness ==
    /\ ret.op = "GetPresence"
    /\ ret.up
    /\ written[ret.userID].kind = "presence"
    /\ ret.calls # <<>>
    /\ ret.err = "nil"
    /\ ret.val.Message = "hi"
    /\ ret.val = written[ret.userID].p

C5_MissWithReachableStore ==
    /\ ret.op = "none"
    /\ ret'.op = "GetPresence"
    /\ ret'.up
    /\ cache[ret'.userID].kind = "none"

\* C5 as claimed: on a cache miss, a record the store holds is returned and
\* is in the cache afterwards, where a following cache Get hits; with no
\* record in the store the call returns not-found and the cache stays empty
C5_ReadThroughAlwaysCached ==
    [][C5_MissWithReachableStore =>
        LET id == ret'.userID
            rec == StoredPresence(store, id)
        IN IF StoreHolds(store, id)
           THEN /\ ret'.err = "nil"
                /\ ret'.val = rec
                /\ cache'[id] = Item(rec)
                /\ CacheGet(cache', id, now').found
           ELSE /\ ret'.err = "PresenceNotFoundError"
                /\ cache'[id].kind = "none"]_vars

\* C5 amended: on a cache miss, a record the store holds is returned and
\* handed to the cache; afterwards the cache holds exactly that record or,
\* admission refused, still no entry; a following cache Get hits when the
\* entry was admitted and the record has not outlived its TTL.  With no
\* record in the store: not-found, and the cache stays empty
C5_ReadThroughIfAdmitted ==
    [][C5_MissWithReachableStore =>
        LET id == ret'.userID
            rec == StoredPresence(store, id)
            outlived == rec.TTL > 0 /\ now' - rec.UpdatedAt > rec.TTL
        IN IF StoreHolds(store, id)
           THEN /\ ret'.err = "nil"
                /\ ret'.val = rec
                /\ ret'.sets = {[userID |-> id, presence |-> rec]}
                /\ cache'[id] \in {NoItem, Item(rec)}
                /\ (cache'[id] = Item(rec) /\ ~outlived)
                       => /\ CacheGet(cache', id, now').found
                          /\ CacheGet(cache', id, now').presence = rec
           ELSE /\ ret'.err = "PresenceNotFoundError"
                /\ ret'.sets = {}
                /\ cache'[id].kind = "none"]_vars

\* C5 witness: a miss was served from the store and the record is cached
C5_Witness ==
    /\ ret.op = "GetPresence"
    /\ ret.found = <<"miss">>
    /\ ret.calls = <<Call("Get", <<ret.userID>>, "nil")>>
    /\ cache[ret.userID] = Item(ret.val)
    /\ Fresh(ret.val, now)

\* C6: when the cache holds a non-expired record for the id, GetPresence
\* returns it without any store call, whether or not the store is reachable
C6_FreshHitSkipsStore ==
    [][(/\ ret.op = "none"
        /\ ret'.op = "GetPresence"
        /\ CacheHolds(cache, ret'.userID, now))
       => (/\ ret'.err = "nil"
           /\ ret'.val = cache[ret'.userID].p
           /\ ret'.calls = <<>>)]_vars

\* C6 witness: a hit served while the store was unreachable, for a record
\* whose age has reached its TTL
C6_Witness ==
    /\ ret.op = "GetPresence"
    /\ ~ret.up
    /\ ret.err = "nil"
    /\ ret.found = <<"hit">>
    /\ ret.val.TTL > 0
    /\ now - ret.val.UpdatedAt = ret.val.TTL

\* C7 as claimed: GetPresence returns the not-found error only when the
\* store reported the record absent or invalid, never when the store call
\* failed for another reason
C7_NotFoundOnlyWhenAbsent ==
    (ret.op = "GetPresence" /\ ret.err = "PresenceNotFoundError")
    => (ret.up /\ ret.calls = <<Call("Get", <<ret.userID>>, "notfound")>>)

\* C8: with the store reachable, GetMultiplePresences returns no error and a
\* map whose keys are exactly the requested ids that have a non-expired
\* record in the cache or a record in the store
C8_BatchKeySet ==
    [][(/\ ret.op = "none"
        /\ ret'.op = "GetMultiplePresences"
        /\ ret'.up)
       => (/\ ret'.err = "nil"
           /\ DOMAIN ret'.vals =
                 {u \in Range(ret'.userIDs) :
                     CacheHolds(cache, u, now) \/ StoreHolds(store, u)})]_vars

\* C8 witness: of two requested ids, one was found and the other omitted
C8_Witness ==
    /\ ret.op = "GetMultiplePresences"
    /\ ret.up
    /\ ret.err = "nil"
    /\ Cardinality(Range(ret.userIDs)) = 2
    /\ Cardinality(DOMAIN ret.vals) = 1

\* C9 as claimed: when the store cannot be reached for the missing ids,
\* GetMultiplePresences returns an error and no map
C9_BatchFailureAborts ==
    (ret.op = "GetMultiplePresences" /\ ret.calls # <<>> /\ ~ret.up)
    => (ret.err # "nil" /\ ret.vals = <<>>)

C10_Missed(c, userIDs, t) ==
    SelectSeq(userIDs, LAMBDA u : ~CacheHolds(c, u, t))

\* C10: GetMultiplePresences makes one store call, for exactly the ids that
\* missed, and none when all hit; every record the store returns is in the
\* result and is handed to the cache
C10_OneBatchedCall ==
    [][(ret.op = "none" /\ ret'.op = "GetMultiplePresences") =>
        LET missed == C10_Missed(cache, ret'.userIDs, now)
            fetched == IF ret'.up
                       THEN {u \in Range(missed) : StoreHolds(store, u)}
                       ELSE {}
        IN /\ missed = <<>> => ret'.calls = <<>>
           /\ missed # <<>> =>
                 /\ Len(ret'.calls) = 1
                 /\ ret'.calls[1].op = "GetMultiple"
                 /\ ret'.calls[1].userIDs = missed
           /\ \A u \in fetched :
                 /\ u \in DOMAIN ret'.vals
                 /\ ret'.vals[u] = StoredPresence(store, u)
                 /\ [userID |-> u, presence |-> StoredPresence(store, u)] \in ret'.sets
           /\ \A x \in ret'.sets : x.userID \in fetched]_vars

\* C10 witness: one id hit, the other was fetched in the one call and cached
C10_Witness ==
    /\ ret.op = "GetMultiplePresences"
    /\ "hit" \in Range(ret.found)
    /\ Len(ret.calls) = 1
    /\ Len(ret.calls[1].userIDs) = 1
    /\ ret.sets # {}
    /\ \A x \in ret.sets : cache[x.userID] = Item(x.presence)

\* C11 as claimed: once Close has returned the cache is empty, and when the
\* store's Close failed Close returned an error
C11_CloseEmptiesCache ==
    ret.op = "Close" =>
        /\ \A u \in Users : cache[u].kind = "none"
        /\ ret.calls[1].err # "nil" => ret.err # "nil"

\* C12 as claimed: with the store reachable, Get returns the record last
\* written by Set under the key, however long ago that was
C12_NeverExpires ==
    (/\ ret.op = "Get"
     /\ ret.up
     /\ written[ret.userID].kind = "presence"
     /\ WellFormed(written[ret.userID].p))
    => (ret.err = "nil" /\ ret.val = written[ret.userID].p)

\* C12 amended: the same for a Get made no later than the bucket's TTL (one
\* hour) after the write; the record's own TTL plays no part
C12_RetrievableWithinBucketTTL ==
    (/\ ret.op = "Get"
     /\ ret.up
     /\ written[ret.userID].kind = "presence"
     /\ WellFormed(written[ret.userID].p)
     /\ now - written[ret.userID].p.UpdatedAt <= Hour)
    => (ret.err = "nil" /\ ret.val = written[ret.userID].p)

\* C12 witness: Get returned a record whose own TTL had run out, at the last
\* moment the bucket keeps it
C12_Witness ==
    /\ ret.op = "Get"
    /\ ret.err = "nil"
    /\ ret.val = written[ret.userID].p
    /\ ret.val.TTL > 0
    /\ now - ret.val.UpdatedAt > ret.val.TTL
    /\ now - ret.val.UpdatedAt = Hour

\* C13: with the store reachable, Get gives the same not-found error, and no
\* record, for a key the bucket does not hold, a key with an empty payload and
\* a key whose payload decodes to an invalid record; a payload that does not
\* decode gives an error; whatever Get returns as a record is valid
C13_UniformNotFound ==
    (ret.op = "Get" /\ ret.up) =>
        LET e == store[presenceKey(ret.userID)]
            absent == ~e.present
            empty == e.present /\ e.data.kind = "empty"
            corrupt == e.present /\ e.data.kind = "garbage"
            invalid == /\ e.present
                       /\ e.data.kind = "json"
                       /\ ~WellFormed(StoredPresence(store, ret.userID))
        IN /\ (absent \/ empty \/ invalid) =>
                 (ret.err = "notfound" /\ ret.val = ZeroPresence)
           /\ corrupt => (ret.err # "nil" /\ ret.val = ZeroPresence)
           /\ ret.err = "nil" => WellFormed(ret.val)

\* C13 witness: not-found was returned for a key that holds a payload which
\* decodes to a record without status, after a Delete of the other key
C13_Witness ==
    /\ ret.op = "Get"
    /\ ret.err = "notfound"
    /\ store[presenceKey(ret.userID)].present
    /\ store[presenceKey(ret.userID)].data.kind = "json"
    /\ StoredPresence(store, ret.userID).UserID = ret.userID
    /\ StoredPresence(store, ret.userID).Status = ""
    /\ \E u \in Users \ {ret.userID} : written[u].kind = "deleted"

\* C14: after Set(k, r1) and then Set(k, r2), a Get(k) (store reachable,
\* entry not yet aged out of the bucket) returns r2 in every field, and the
\* payload under k has a message or ttl member only when r2 has one
C14_OverwriteWholesale ==
    \A u \in Users :
        LET w == written[u]
            e == store[presenceKey(u)]
        IN (w.kind = "presence" /\ w.prev.kind = "presence") =>
              /\ e.present =>
                    /\ e.data.kind = "json"
                    /\ StoredPresence(store, u) = w.p
                    /\ "message" \in DOMAIN e.data.obj <=> w.p.Message # ""
                    /\ "ttl" \in DOMAIN e.data.obj <=> w.p.TTL # 0
              /\ (/\ ret.op = "Get"
                  /\ ret.userID = u
                  /\ ret.up
                  /\ WellFormed(w.p)
                  /\ now - w.p.UpdatedAt <= Hour)
                 => (ret.err = "nil" /\ ret.val = w.p)

\* C14 witness: r1 had a message and a TTL, r2 has neither, and Get returned
\* r2 without them
C14_Witness ==
    /\ ret.op = "Get"
    /\ ret.err = "nil"
    /\ written[ret.userID].kind = "presence"
    /\ written[ret.userID].prev.kind = "presence"
    /\ written[ret.userID].prev.Message = "hi"
    /\ written[ret.userID].prev.TTL = 1
    /\ ret.val = written[ret.userID].p
    /\ ret.val.Message = ""
    /\ ret.val.TTL = 0

\* C15: with the store reachable, Delete returns no error whether the key is
\* there or not, the bucket reporting ErrKeyNotFound or not; the key is gone
\* afterwards, and Get reports not found for as long as the Delete is the
\* last write under the key
C15_DeleteThenNotFound ==
    /\ (ret.op = "Delete" /\ ret.up) =>
          /\ ret.err = "nil"
          /\ ~store[presenceKey(ret.userID)].present
          /\ written[ret.userID].kind = "deleted"
    /\ (ret.op = "Get" /\ ret.up /\ written[ret.userID].kind = "deleted") =>
          (ret.err = "notfound" /\ ret.val = ZeroPresence)

\* C15 witness: a Delete of a key the bucket did not hold, reported by the
\* bucket as ErrKeyNotFound, returned no error
C15_Witness ==
    /\ ret.op = "Delete"
    /\ ret.err = "nil"
    /\ ret.calls[1].err = "ErrKeyNotFound"
    /\ \E u \in Users : store[presenceKey(u)].present

\* C16: NewKVStore for role leaf without center URL, embedded or not, returns
\* an error and no store, and leaves no open store behind the handle
C16_EdgeWithoutCoordinatorFails ==
    (/\ ret.op = "NewKVStore"
     /\ ret.config.NodeType = "leaf"
     /\ ret.config.CenterURL = "")
    => /\ ret.err # NilErr
       /\ ~ret.store
       /\ built[ret.h] = NoStore

\* C16 witness: an embedded leaf without center URL whose broker started and
\* whose connection was made is refused at the role check
C16_Witness ==
    /\ ret.op = "NewKVStore"
    /\ ret.config.NodeType = "leaf"
    /\ ret.config.CenterURL = ""
    /\ ret.config.Embedded
    /\ ret.started # ""
    /\ ret.err.kind = "leaf nodes must specify center URL for KV operations"

C17_Role(config) == IF config.NodeType = "leaf" THEN "leaf" ELSE "center"

C17_Configured(config) ==
    IF config.StartTimeout = "200ms" THEN ShortTimeout
    ELSE IF C17_Role(config) = "center" THEN CenterTimeout ELSE LeafTimeout

C17_Started == ret.op = "NewKVStore" /\ ret.config.Embedded /\ ret.fault # "server"

C18_FailureReleasesAll ==
    (ret.op = "NewKVStore" /\ ret.started # "" /\ ret.err # NilErr) =>
        /\ ~ret.store
        /\ built[ret.h] = NoStore
        /\ ret.started \notin brokers.running
        /\ ret.s.conn # "open"

\* C18 witness: the bucket step failed after the broker was started and the
\* connection opened; the connection is closed
C18_Witness ==
    /\ ret.op = "NewKVStore"
    /\ ret.started # ""
    /\ ret.err.kind = "failed to create/get KV bucket"
    /\ ret.s.conn = "closed"
    /\ ret.s.server = ret.started

\* C19 as claimed: an embedded store with no server URL configured, not a
\* leaf with a center URL, dials the client URL of the broker the call
\* started; the configured server URL is dialled only when there is one
C19_DialsEmbeddedBroker ==
    (ret.op = "NewKVStore" /\ ret.dialled # "") =>
        /\ (/\ ret.config.Embedded
            /\ ret.config.ServerURL = ""
            /\ ~(ret.config.NodeType = "leaf" /\ ret.config.CenterURL # ""))
           => (ret.started # "" /\ ret.dialled = ret.started)
        /\ ret.dialled = RemoteURL => ret.config.ServerURL = RemoteURL

C20_Coordinator ==
    /\ ret.op = "none"
    /\ ret'.op = "NewKVStore"
    /\ ret'.config.NodeType \in {"", "center"}
    /\ ret'.fault \in {"none", "exists"}
    /\ ret'.err.kind # "server failed to start within"

\* C20: a coordinator (role center or unspecified) whose broker answers gets
\* its bucket whether it exists or not: construction succeeds, the bucket
\* exists afterwards, the buckets there were are still there and the records
\* in them are what they were
C20_CreateOrGet ==
    [][C20_Coordinator =>
        LET b == <<ret'.dialled, "presence">>
        IN /\ ret'.err = NilErr
           /\ ret'.store
           /\ built'[ret'.h].conn = "open"
           /\ built'[ret'.h].kv = "presence"
           /\ brokers'.buckets = brokers.buckets \cup {b}
           /\ store' = store]_vars

\* C20 witness: a second coordinator was constructed against the broker and
\* bucket of the first, which is still open; the bucket existed, holds a
\* record, and CreateKeyValue refused it
C20_Witness ==
    /\ ret.op = "NewKVStore"
    /\ ret.store
    /\ ret.fault = "exists"
    /\ ret.config.NodeType = ""
    /\ \E h \in Handles \ {ret.h} :
          /\ built[h].conn = "open"
          /\ built[h].url = built[ret.h].url
          /\ built[h].kv = built[ret.h].kv
    /\ ret.dialled = RemoteURL
    /\ StoreHolds(store, "u1")

C21_Called == ret.op = "none" /\ ret'.op = "NewKVStore"

C21_Attached ==
    /\ ret'.fault \notin {"connect", "js", "kv"}
    /\ <<ret'.dialled, bucketNameOf(ret'.config)>> \in brokers.buckets

\* C21 as stated: a node configured with a coordinator address, whatever its
\* role, creates no bucket, and gets a store only when the bucket exists and
\* is reached
C21_CoordinatorAddressNeverCreates ==
    [][(C21_Called /\ ret'.config.CenterURL # "") =>
        /\ brokers'.buckets = brokers.buckets
        /\ ret'.store <=> C21_Attached]_vars

\* C21: an edge (role leaf) never creates the bucket: it gets a store only
\* when the bucket of that name exists at the broker it dials and every step
\* up to the bucket lookup succeeds; otherwise construction fails, no store
\* is returned and the handle holds none
C21_EdgeNeverCreates ==
    [][(C21_Called /\ ret'.config.NodeType = "leaf") =>
        /\ brokers'.buckets = brokers.buckets
        /\ ret'.store <=> (ret'.config.CenterURL # "" /\ C21_Attached)
        /\ ret'.store => (ret'.err = NilErr /\ built'[ret'.h].kv = bucketNameOf(ret'.config))
        /\ ~ret'.store => (ret'.err # NilErr /\ built'[ret'.h] = NoStore)]_vars

\* C21 witness: an edge attached to the bucket a coordinator created at the
\* hub, and the coordinator's store is still open
C21_Witness ==
    /\ ret.op = "NewKVStore"
    /\ ret.config.NodeType = "leaf"
    /\ ret.store
    /\ ret.dialled = RemoteURL
    /\ \E h \in Handles \ {ret.h} : built[h].conn = "open" /\ built[h].url = RemoteURL

\* C22: the broker NewKVStore starts has the options of its role: for a
\* coordinator JetStream is enabled and there is a listener for leaf
\* connections on LeafPort and one for cluster peers on ClusterPort when
\* these are > 0; for an edge JetStream is disabled and a configured
\* coordinator address is one of its remote leaf connections
C22_StartedWithRoleOptions ==
    (ret.op = "NewKVStore" /\ ret.started # "") =>
        LET config == ret.config
        IN IF nodeTypeOf(config) = "center"
           THEN /\ ret.options.JetStream
                /\ config.LeafPort > 0 => ret.options.LeafPort = config.LeafPort
                /\ config.ClusterPort > 0 => ret.options.ClusterPort = config.ClusterPort
           ELSE /\ ~ret.options.JetStream
                /\ config.CenterURL # "" => config.CenterURL \in ret.options.Remotes

\* C23: a subscription Watch has made goes on for as long as its context is
\* not cancelled: the goroutine runs and the watcher is active, so that every
\* write to the bucket reaches the callback
C23_EndsOnlyOnCancel ==
    (watch.goroutine # "none" /\ watch.ctx = "live") =>
        (watch.goroutine = "running" /\ watch.watcher = "active")

\* Watch returns nil as soon as the watcher is made: the goroutine has been
\* started, nothing has been received and no callback has run
C24_ReturnsAtOnce ==
    (ret.op = "none" /\ ret'.op = "Watch" /\ ret'.err = "nil") =>
        /\ watch'.goroutine = "running"
        /\ watch'.taken = <<>>
        /\ watch'.events = <<>>

\* The callbacks so far are those of the entries received, in that order;
\* only the nil entry is received without a callback, and it is the last
C24_InOrder ==
    LET n == Len(watch.events)
    IN /\ n <= Len(watch.taken)
       /\ \A i \in 1 .. n : watch.events[i] = WatchEventOf(watch.taken[i])
       /\ Len(watch.taken) > n =>
             (Len(watch.taken) = n + 1 /\ watch.taken[n + 1] = NilEntry)
       /\ watch.goroutine = "done" => watch.watcher = "stopped"

\* One callback per step of the one goroutine, and none once it has returned
C24_OneAtATime ==
    /\ Len(watch'.events) <= Len(watch.events) + 1
    /\ watch.goroutine = "done" =>
          (watch'.goroutine = "done" /\ watch'.events = watch.events)

\* C24: Watch returns as soon as the watcher is made, without waiting for an
\* event or a callback; callbacks run one at a time, in the order of
\* delivery, on the subscription's goroutine; once the context is cancelled
\* the goroutine eventually returns and stops the watcher, and invokes no
\* callback after that
C24_Subscription ==
    /\ []C24_InOrder
    /\ [][C24_ReturnsAtOnce /\ C24_OneAtATime]_vars
    /\ (watch.ctx = "cancelled" /\ watch.goroutine = "running")
          ~> (watch.goroutine = "done" /\ watch.watcher = "stopped")

\* C24 witness: the context was cancelled while the goroutine ran, after a
\* callback and before the nil entry was received, and the goroutine has
\* returned and stopped the watcher
C24_Witness ==
    /\ watch.ctx = "cancelled"
    /\ watch.goroutine = "done"
    /\ watch.watcher = "stopped"
    /\ Len(watch.events) >= 1
    /\ Len(watch.taken) = Len(watch.events)
    /\ watch.Updates # <<>>

C25_Decodes(entry) == entry.value.kind = "json"

C25_Events ==
    \A i \in 1 .. Len(watch.events) :
       LET entry == watch.taken[i]
           event == watch.events[i]
       IN /\ event.Key = entry.key
          /\ \E id \in Users : event.Key = "user." \o id
          /\ (entry.op = "KeyValuePut" /\ C25_Decodes(entry)) =>
                /\ event.Type = "PUT"
                /\ Len(event.Presence) = 1
                /\ \A id \in Users : \A p \in WatchRequests(id) :
                      entry.value = Marshal(p) => event.Presence[1] = p
          /\ (entry.op = "KeyValuePut" /\ ~C25_Decodes(entry)) =>
                (event.Type = "PUT" /\ event.Presence = <<>>)
          /\ entry.op = "KeyValueDelete" =>
                (event.Type = "DELETE" /\ event.Presence = <<>>)

C25_UndecodableGoesOn ==
    (/\ Len(watch'.events) = Len(watch.events) + 1
     /\ watch'.events[Len(watch'.events)].Type = "PUT"
     /\ watch'.events[Len(watch'.events)].Presence = <<>>)
    => (watch'.goroutine = "running" /\ watch'.watcher = "active")

\* C25: every event carries the key "user.<id>" of its entry; the event of a
\* PUT whose payload decodes has type PUT and the decoded record, equal to
\* the record written; the event of a PUT whose payload does not decode has
\* type PUT and no record, and the subscription goes on after it; the event
\* of a DELETE has type DELETE and no record
C25_EventOfEntry == []C25_Events /\ [][C25_UndecodableGoesOn]_vars

\* C25 witness: the callback got a PUT without record for an undecodable
\* payload and after it the event of another entry, and the events so far
\* include a PUT with its record or a DELETE
C25_Witness ==
    \E i, j \in 1 .. Len(watch.events) :
       /\ i < j
       /\ watch.events[i].Type = "PUT"
       /\ watch.events[i].Presence = <<>>
       /\ watch.events[j].Type \in {"PUT", "DELETE"}
       /\ watch.events[j].Type = "PUT" => Len(watch.events[j].Presence) = 1

\* The cache's expiry rule, as the claims word it
C26_Expired(p, t) == p.TTL > 0 /\ t - p.UpdatedAt > p.TTL

C26_Get ==
    (ret.op = "none" /\ ret'.op = "cache.Get") =>
        LET k == ret'.userID
            it == cache[k]
        IN /\ (it.kind = "presence" /\ C26_Expired(it.p, now)) =>
                 (~ret'.found /\ cache'[k] = NoItem)
           /\ (it.kind = "presence" /\ ~C26_Expired(it.p, now)) =>
                 (ret'.found /\ ret'.val = it.p /\ cache' = cache)
           /\ (it.kind = "presence" /\ it.p.TTL = 0) => ret'.found
           /\ it.kind = "none" => (~ret'.found /\ cache' = cache)

C26_Set ==
    (ret.op = "none" /\ ret'.op = "cache.Set" /\ ret'.ttl > 0
     /\ cache'[ret'.userID].kind = "presence") =>
        /\ cache'[ret'.userID].p.TTL = ret'.ttl
        /\ cache'[ret'.userID].p.UpdatedAt = ret'.presence.UpdatedAt

C26_UntilSetAgain ==
    \A k \in Users :
       (cache[k] = NoItem /\ cache'[k] # NoItem) =>
          (ret'.op \in {"cache.Set", "ristretto.Set", "GetPresence"} /\ ret'.userID = k)

\* C26: Get of an entry whose record has TTL > 0 and now - UpdatedAt > TTL
\* returns not found and removes the entry, and Gets of the key miss until
\* it is set again; an entry with TTL = 0 or with now - UpdatedAt <= TTL is
\* returned; a record set with ttl argument T > 0 is stored with TTL = T and
\* its own UpdatedAt, so it expires T after UpdatedAt, not T after the Set
C26_ExpiryOnGet == [][C26_Get /\ C26_Set /\ C26_UntilSetAgain]_vars

\* C26 witness: Get missed and removed an entry in the tick in which it was
\* set with ttl argument 1, its UpdatedAt being more than 1 back
C26_Witness ==
    /\ ret.op = "cache.Get"
    /\ ret.had.kind = "presence"
    /\ ret.set.kind = "set"
    /\ ret.set.item = ret.had
    /\ ret.set.ttl = 1
    /\ ret.set.at = now
    /\ ~ret.found
    /\ cache[ret.userID] = NoItem

\* A Get of key k that follows Set(k, v, ttl): the entry is the one that Set
\* left and it has not expired
C27_GetAfterSet ==
    /\ ret.op = "none"
    /\ ret'.op = "cache.Get"
    /\ written[ret'.userID].kind = "set"
    /\ cache[ret'.userID] = written[ret'.userID].item
    /\ cache[ret'.userID].kind = "presence"
    /\ ~C26_Expired(cache[ret'.userID].p, now)

\* C27 as stated: the record Get returns equals v in all fields, whatever
\* the ttl argument
C27_RoundTripAllFields ==
    [][C27_GetAfterSet =>
        (ret'.found /\ ret'.val = written[ret'.userID].p)]_vars

\* C27: Set(k, v, ttl) followed by Get(k), the entry admitted and not
\* expired, returns found with a record equal to v in all fields but TTL,
\* which is ttl when ttl > 0 and v's TTL otherwise
C27_RoundTrip ==
    [][C27_GetAfterSet =>
        LET w == written[ret'.userID]
        IN /\ ret'.found
           /\ ret'.val = [w.p EXCEPT !.TTL = IF w.ttl > 0 THEN w.ttl ELSE @]]_vars

\* C27 witness: Get returned the record of a Set whose ttl argument differs
\* from the record's TTL
C27_Witness ==
    /\ ret.op = "cache.Get"
    /\ ret.found
    /\ ret.set.kind = "set"
    /\ ret.set.item = ret.had
    /\ ret.set.ttl = 1
    /\ ret.set.p.TTL = 2
    /\ ret.val.TTL = 1

\* A Delete of key k that follows Set(k, v), with nothing counted in between
C28_DeleteAfterSet ==
    /\ ret.op = "none"
    /\ ret'.op = "cache.Delete"
    /\ written[ret'.userID].kind = "set"
    /\ metrics = written[ret'.userID].after

C28_Misses ==
    /\ (ret.op = "none" /\ ret'.op = "cache.Delete") => cache'[ret'.userID] = NoItem
    /\ (ret.op = "none" /\ ret'.op = "cache.Get" /\ cache[ret'.userID] = NoItem) =>
          ~ret'.found
    /\ (ret.op = "none" /\ ret'.op = "cache.Clear") =>
          (Size(metrics') = 0 /\ \A k \in Users : cache'[k] = NoItem)

\* C28 as stated: after Set(k, v) and Delete(k), Size() is what it was
\* before the Set
C28_SizeBackAlways ==
    [][C28_DeleteAfterSet => Size(metrics') = written[ret'.userID].size]_vars

\* C28: after Delete(k), Get(k) misses; when the Set before it was of a key
\* the cache did not hold, evicted no other key and found no deletion
\* unprocessed, Size() is back to what it was before the Set; after Clear,
\* Size() is 0 and Get misses for every key
C28_MissAfterDelete ==
    [][/\ C28_Misses
       /\ (C28_DeleteAfterSet /\ written[ret'.userID].fresh
            /\ written[ret'.userID].quiet)
             => Size(metrics') = written[ret'.userID].size]_vars

\* C28 witness: with metrics, a new key was set next to another and then
\* deleted, and Size() is again the 1 it was
C28_Witness ==
    /\ ret.op = "cache.Delete"
    /\ ret.set.kind = "set"
    /\ ret.set.fresh
    /\ ret.set.quiet
    /\ ret.set.item.kind = "presence"
    /\ ret.before = ret.set.after
    /\ metrics.Metrics
    /\ ret.set.size = 1
    /\ Size(metrics) = 1
    /\ cache[ret.userID] = NoItem

C29_Present == {k \in Users : cache[k].kind # "none"}

C29_SizeValue ==
    /\ Size(metrics) >= 0
    /\ metrics.Metrics => Size(metrics) = metrics.KeysAdded - metrics.KeysEvicted
    /\ (metrics.Metrics /\ metrics.clean) => Size(metrics) = Cardinality(C29_Present)
    /\ ~metrics.Metrics => Size(metrics) = 0

C29_Returned ==
    (ret.op = "none" /\ ret'.op = "cache.Size") =>
        ret'.size = (IF metrics.Metrics
                     THEN metrics.KeysAdded - metrics.KeysEvicted ELSE 0)

C29_ResetKeepsSize ==
    (ret.op = "none" /\ ret'.op = "cache.Set" /\ cache[ret'.userID].kind # "none"
     /\ metrics'.clean) => Size(metrics') = Size(metrics)

\* C29: with metrics, Size() is keysAdded - keysEvicted, never negative,
\* and, while nothing has been rejected or evicted, the number of keys the
\* cache holds (0 for a new cache, unchanged by setting a key it holds);
\* without metrics Size() is 0 whatever the cache holds
C29_Size == []C29_SizeValue /\ [][C29_Returned /\ C29_ResetKeepsSize]_vars

\* C29 witness: Size() returned 2 for a cache with metrics that holds two
\* keys, after three were added and one deleted, nothing rejected or evicted
C29_Witness ==
    /\ ret.op = "cache.Size"
    /\ metrics.Metrics
    /\ metrics.clean
    /\ ret.size = 2
    /\ metrics.KeysEvicted = 1
    /\ Cardinality(C29_Present) = 2

C30_Get ==
    (ret.op = "none" /\ ret'.op = "cache.Get" /\ cache[ret'.userID].kind = "corrupt") =>
        /\ ~ret'.found
        /\ ret'.val = ZeroPresence
        /\ cache'[ret'.userID] = NoItem
        /\ \A k \in Users \ {ret'.userID} : cache'[k] = cache[k]

C30_GetPresence ==
    (ret.op = "none" /\ ret'.op = "GetPresence" /\ cache[ret'.userID].kind = "corrupt") =>
        LET k == ret'.userID
            s == KVGet(store, k, ret'.up)
        IN /\ ret'.found = <<"miss">>
           /\ ret'.calls = <<Call("Get", <<k>>, s.err)>>
           /\ s.err = "nil" => (ret'.err = "nil" /\ ret'.val = s.presence)
           /\ s.err # "nil" => (ret'.err = "PresenceNotFoundError" /\ cache'[k] = NoItem)
           /\ cache'[k].kind # "corrupt"
           /\ store' = store

\* C30: Get of a key whose cached value is not a record returns not found
\* and the zero record, removes the entry (so that later Gets miss, see
\* C26) and reports no error; GetPresence then asks the store, as for any
\* miss, and returns what the store gives
C30_CorruptIsMiss == [][C30_Get /\ C30_GetPresence]_vars

\* C30 witness: GetPresence found a corrupted entry under its key, asked the
\* store and returned the stored record, which is now cached
C30_Witness ==
    /\ ret.op = "GetPresence"
    /\ ret.had = "corrupt"
    /\ ret.err = "nil"
    /\ ret.val = StoredRecord
    /\ cache[ret.userID] = Item(StoredRecord)

\* C31: GET /health/readiness answers 503 exactly when the probe
\* (PresenceService.Ready) fails, and the probe fails whenever the broker of
\* the durable store does not answer
C31_ReadinessReflectsStore ==
    [][(/\ http = NoExchange
        /\ http'.handler = "Readiness")
       => /\ (http'.status = 503) <=> (ret'.err # "nil")
          /\ (http'.status = 200) <=> (ret'.err = "nil")
          /\ ~ret'.up => ret'.err # "nil"]_vars

\* a valid JWT, as the claim lists what makes one invalid
C32_ValidJWT(token) ==
    /\ token.scheme = "Bearer"
    /\ token.signed
    /\ ~token.expired
    /\ token.iss = JWTIssuer
    /\ token.sub # ""

\* C32: a PUT of a presence without a valid JWT is answered 401 and does not
\* reach SetPresence: the store and the cache stay as they are
C32_UnauthenticatedPutRejected ==
    [][(/\ http = NoExchange
        /\ http'.method = "PUT"
        /\ ~C32_ValidJWT(http'.token))
       => /\ http'.status = 401
          /\ ret'.op # "SetPresence"
          /\ store' = store
          /\ cache' = cache]_vars

\* GetPresence(u) is called at this node while its cache holds a copy of u
\* with a positive TTL
C33_GetWithCopy(u) ==
    /\ ret.op = "none"
    /\ ret'.op = "GetPresence"
    /\ ret'.userID = u
    /\ cache[u].kind = "presence"
    /\ cache[u].p.TTL > 0

\* the copy is returned only while now - UpdatedAt <= TTL
C33_OldCopyOnlyWithinTTL ==
    [][\A u \in Users :
          (C33_GetWithCopy(u) /\ ret'.err = "nil" /\ ret'.val = cache[u].p
             /\ ~(StoreHolds(store, u) /\ StoredPresence(store, u) = cache[u].p))
          => now - cache[u].p.UpdatedAt <= cache[u].p.TTL]_vars

\* after that, a GetPresence the broker answers returns what the bucket holds
\* for u (not found when it holds nothing)
C33_ThenTheStoredRecord ==
    [][\A u \in Users :
          (C33_GetWithCopy(u) /\ now - cache[u].p.UpdatedAt > cache[u].p.TTL
             /\ ret'.up)
          => IF StoreHolds(store, u)
             THEN ret'.err = "nil" /\ ret'.val = StoredPresence(store, u)
             ELSE ret'.err = "PresenceNotFoundError"]_vars

\* a write of another node changes nothing in this node's cache
C33_NothingPushed ==
    [][(store' # store /\ ret' = ret /\ now' = now) => cache' = cache]_vars

C34_SameVerdict ==
    \A u \in Users :
       cache[u].kind = "presence"
       => (CacheGet(cache, u, now).found <=> ~IsExpired(cache[u].p, now))

\* the timeout the claim describes: the StartTimeout override when it parses
\* to a non-zero duration, else the default of the role
C35_Timeout(b) ==
    LET parsed == ParseDuration(b.StartTimeout)
    IN IF b.StartTimeout # "" /\ parsed.err = "nil" /\ parsed.d # 0 THEN parsed.d
       ELSE IF b.nodeType = "center" THEN CenterTimeout ELSE LeafTimeout

\* a turn of the loop leaves it when the broker is ready and when the elapsed
\* time has reached the timeout, and only then
C35_Turn ==
    [][boot.state = "Polling"
       => /\ boot'.state \in {"Polling", "Ready", "Failed"}
          /\ boot'.state = "Ready" <=> ReadyForConnections(boot.readyAt, boot.elapsed)
          /\ boot'.state = "Failed" => boot'.elapsed >= C35_Timeout(boot)
          /\ boot'.state = "Polling"
                => (boot.elapsed + 1 < C35_Timeout(boot) /\ boot'.elapsed > boot.elapsed)]_vars

\* C35: store construction ends in Ready or Failed: the readiness loop is left
\* as soon as the broker reports ready or once the elapsed time reaches the
\* timeout (the StartTimeout override when it parses to a non-zero duration,
\* else the role's default, longer for a center than for a leaf); it does not
\* poll for ever
C35_Terminates ==
    /\ (boot.state = "Polling") ~> (boot.state \in {"Ready", "Failed"})
    /\ C35_Turn
    /\ [](boot.state = "Polling" => boot.elapsed < C35_Timeout(boot) + 2)
    /\ [](CenterTimeout > LeafTimeout)

\* a broker that never got ready was given up after the configured timeout,
\* at the turn after the first
C35_Witness ==
    /\ boot.state = "Failed"
    /\ boot.readyAt = Never
    /\ boot.StartTimeout = "200ms"
    /\ boot.polls > 1
    /\ boot.elapsed >= ShortTimeout

\* the loop's outcome is the one NewKVStore is modelled with
C35_SameAsWaitReady ==
    (boot.state \in {"Ready", "Failed"} /\ boot.polls > 0 /\ boot.readyAt # Never)
    => LET w == WaitReady(boot.readyAt, boot.timeout, 0)
       IN /\ w.ready <=> boot.state = "Ready"
          /\ w.elapsed = boot.elapsed

\* C36 as stated: on one node, calls made one at a time and no other writer,
\* every entry the cache holds for a user equals in all fields the record
\* the durable store holds for that user
C36_CacheEqualsStore ==
    \A u \in Users :
       cache[u].kind = "presence"
       => /\ store[presenceKey(u)].present
          /\ StoredPresence(store, u) = cache[u].p

\* C36: on one node, calls made one at a time and no other writer, every
\* entry the cache holds for a user whose record the bucket still holds (it
\* drops a record an hour after it was written) equals that record in all
\* fields
C36_CacheEqualsStoreWhileKept ==
    \A u \in Users :
       (cache[u].kind = "presence" /\ store[presenceKey(u)].present)
       => StoredPresence(store, u) = cache[u].p

\* the cache holds, after a read-through, the record a SetPresence stored
C36_Witness ==
    /\ ret.op = "GetPresence"
    /\ ret.found = <<"miss">>
    /\ ret.err = "nil"
    /\ cache[ret.userID] = Item(ret.val)
    /\ written[ret.userID] = Item(ret.val)
    /\ store[presenceKey(ret.userID)].present
    /\ ret.val.Message # ""
    /\ ret.val.TTL # 0

\* C37: with several callers on one node, once every SetPresence and
\* GetPresence call in progress for a user has returned, a cache entry for
\* that user that is not expired equals the record the bucket holds: no
\* interleaving leaves the cache with an older record than the store
C37_CoherentWhenQuiet ==
    \A u \in Users :
       (/\ \A c \in Callers : calls[c].pc = "idle" \/ calls[c].userID # u
        /\ cache[u].kind = "presence"
        /\ ~IsExpired(cache[u].p, now)
        /\ store[presenceKey(u)].present)
       => StoredPresence(store, u) = cache[u].p

\* expired, in the claim's words: TTL > 0 and now - UpdatedAt > TTL
C38_Expired(p, t) == p.TTL > 0 /\ t - p.UpdatedAt > p.TTL

\* C38: GetPresence and GetMultiplePresences return no record that is expired
\* at the time of the call, whether it came from the cache or from the store
C38_NeverReturnsExpired ==
    /\ (ret.op = "GetPresence" /\ ret.err = "nil")
          => ~C38_Expired(ret.val, now)
    /\ (ret.op = "GetMultiplePresences" /\ ret.err = "nil")
          => \A u \in DOMAIN ret.vals : ~C38_Expired(ret.vals[u], now)

\* a record is stored under durable key user.<id> or cached under id with a
\* UserID that is not id
C39_Misfiled(u) ==
    \/ cache[u].kind = "presence" /\ cache[u].p.UserID # u
    \/ /\ store[presenceKey(u)].present
       /\ store[presenceKey(u)].data.kind = "json"
       /\ StoredPresence(store, u).UserID # u

\* C39: every record the service stores under user.<id> and caches under id
\* has UserID = id; SetPresence(id, record) with another or no UserID leaves
\* no record with another UserID stored or cached under id
C39_KeyIsUserID == \A u \in Users : ~C39_Misfiled(u)

\* the service is called
C40_Called(op) == ret.op = "none" /\ ret'.op = op

\* a read leaves the bucket as it is and calls no Set or Delete on the store
C40_ReadsLeaveStore ==
    [][(\E op \in {"GetPresence", "GetMultiplePresences", "Ready"} : C40_Called(op))
       => /\ store' = store
          /\ \A i \in DOMAIN ret'.calls : ret'.calls[i].op \in {"Get", "GetMultiple"}]_vars

\* SetPresence writes under the key of its id only, and nothing but
\* SetPresence writes (the broker's dropping of old entries as time passes is
\* not a write of the service)
C40_OnlySetPresenceWrites ==
    [][/\ C40_Called("SetPresence")
          => \A k \in Keys \ {presenceKey(ret'.userID)} : store'[k] = store[k]
       /\ (store' # store /\ now' = now) => C40_Called("SetPresence")]_vars

\* C40: GetPresence, GetMultiplePresences and Ready issue no Set or Delete on
\* the durable store, whose contents are the same before and after a read
\* whatever the cache holds; only SetPresence writes, and only under the key
\* of the id it was called with
C40_ReadsNeverWrite == C40_ReadsLeaveStore /\ C40_OnlySetPresenceWrites

\* GetPresence found a corrupted entry in the cache and read the record
\* through from the bucket, which holds records for both users
C40_Witness ==
    /\ ret.op = "GetPresence"
    /\ ret.had = "corrupt"
    /\ ret.err = "nil"
    /\ \A u \in Users : StoreHolds(store, u)
====
